---- MODULE Spec2Model ----
(***************************************************************************)
(* The daily-document endpoints of adulting-cloud-functions: HTTP handlers *)
(* that read and write one Firestore document per (user, UTC day) in the   *)
(* collections users/{id}/to_do_list and users/{id}/planner.               *)
(*                                                                         *)
(* Every handler is `await ref.get()` followed, on its write path, by      *)
(* `await ref.set(...)` or `await ref.update(...)`.  A handler runs without *)
(* interruption from one await to the next, and other requests run while   *)
(* it awaits, so a handler is one action per stretch of its code:          *)
(*   Start   from the request to the call of get(), which takes the        *)
(*           snapshot (pc "read": the handler awaits the snapshot), or to  *)
(*           the answer of a request that fails validation;                *)
(*   Write   from the snapshot to the call of set() or update(), which the *)
(*           store applies (pc "write": the handler awaits the write), or  *)
(*           to the answer of a request that does not write;               *)
(*   Answer  from the resolved write, or from the snapshot of a handler    *)
(*           that only reads, to the answer (pc "done").                   *)
(* Every `new Date()` reads `clock` in the action that runs it.            *)
(*                                                                         *)
(* Encoding of JavaScript values.  Scalars are strings: the booleans are   *)
(* "true" and "false", a missing property reads as Undefined, and any      *)
(* other string stands for itself.  An object is a record holding only the *)
(* properties that are present; Get reads a property the way JS does.      *)
(* Timestamps are ticks of `clock`.                                        *)
(*                                                                         *)
(* The call scheduler (userDataTriggers.ts, services/vapi.ts) is the       *)
(* trigger onUserUpdated on the documents users/{id}, scheduleVapiCall and *)
(* parseTimeString.  Its instants are milliseconds of local time on        *)
(* `wallClock`, and a time string is the sequence of its characters.       *)
(***************************************************************************)
EXTENDS Integers, Sequences, FiniteSets, TLC

VARIABLES env, clock, todo, planner, pc, req, loc, resp,
          wallClock, timeString, parsed, users, calls

vars == <<env, clock, todo, planner, pc, req, loc, resp,
          wallClock, timeString, parsed, users, calls>>

\* the state of the call scheduler, which no HTTP handler touches
sched == <<wallClock, timeString, parsed, users, calls>>

-----------------------------------------------------------------------------
(* Bounds of the model *)

NumProcs == 2        \* request slots: how many requests may be in flight at once
TicksPerDay == 2     \* instants of one UTC day that the clock tells apart
MaxItems == 3        \* to-do items the collection holds before creates stop

Procs == 1..NumProcs

-----------------------------------------------------------------------------
(* JavaScript values *)

Undefined == "undefined"

Falsy(v) == v \in {Undefined, "", "false", "null", "0"}

Truthy(v) == ~Falsy(v)

\* typeof v, for the scalars of the model
TypeOf(v) ==
  IF v = Undefined THEN "undefined"
  ELSE IF v \in {"true", "false"} THEN "boolean"
  ELSE IF v = "null" THEN "object"
  ELSE IF v \in {"0", "1", "5"} THEN "number"
  ELSE "string"

\* s.length of the strings of the model: the two named long texts stand for
\* a text of 501 and of 1001 characters, any other string for itself
StrLen(s) ==
  CASE s = "LONG_TASK_TEXT" -> 501
    [] s = "LONG_MEAL_TEXT" -> 1001
    [] OTHER -> Len(s)

Get(obj, f) == IF f \in DOMAIN obj THEN obj[f] ELSE Undefined

\* {...obj, f: v}
Spread(obj, f, v) == [g \in (DOMAIN obj) \cup {f} |-> IF g = f THEN v ELSE obj[g]]

Min(S) == CHOOSE x \in S : \A y \in S : x <= y

SeqMap(Op(_), s) == [i \in 1..Len(s) |-> Op(s[i])]

\* arr.filter(pred).length
CountIf(Pred(_), s) == Cardinality({i \in 1..Len(s) : Pred(s[i])})

\* a date key that never leaves the first day
DateKey_FirstDay(t) == 0

\* new Date().toISOString().split("T")[0]: the UTC calendar day of an instant
DateKey(t) == t \div TicksPerDay


\* An array-typed argument: Arr(s) is the JS array s, NotArr a truthy value
\* that is not an array (Array.isArray is false).  A missing argument is a
\* missing field of the arguments record.
Arr(s) == [isArray |-> TRUE, elems |-> s]

NotArr == [isArray |-> FALSE, elems |-> <<>>]

IsArray(args, f) == f \in DOMAIN args /\ args[f].isArray

-----------------------------------------------------------------------------
(* The document store (Firestore), one collection per variable: a function *)
(* from the keys <<userId, date>> of the documents that exist to their     *)
(* data.                                                                   *)

\* ref.get(): a DocumentSnapshot
DocGet(coll, key) ==
  IF key \in DOMAIN coll THEN [exists |-> TRUE, data |-> coll[key]]
                         ELSE [exists |-> FALSE]

\* ref.set(data): creates the document or replaces it as a whole
DocSet(coll, key, data) ==
  [k \in (DOMAIN coll) \cup {key} |-> IF k = key THEN data ELSE coll[k]]

\* ref.update(patch): replaces the named top-level fields of an existing
\* document and keeps the others
DocUpdate(coll, key, patch) ==
  [k \in DOMAIN coll |->
     IF k = key
       THEN [f \in (DOMAIN coll[k]) \cup (DOMAIN patch) |->
               IF f \in DOMAIN patch THEN patch[f] ELSE coll[k][f]]
       ELSE coll[k]]

\* Firestore refuses data that holds `undefined` (ignoreUndefinedProperties
\* is not enabled by getFirestore()): the write throws and stores nothing.
HasUndefinedStatus(items) ==
  \E i \in 1..Len(items) : Get(items[i], "isComplete") = Undefined

-----------------------------------------------------------------------------
(* Requests and responses *)

\* if (!providedApiKey || providedApiKey !== API_KEY) -> 401
Authorized(providedApiKey, API_KEY) ==
  Truthy(providedApiKey) /\ providedApiKey = API_KEY

\* vapiRequest?.message?.toolCallList?.[0]?.function?.arguments is truthy
EnvelopeOk(r) ==
  /\ r.hasBody
  /\ Len(r.toolCallList) > 0
  /\ "arguments" \in DOMAIN r.toolCallList[1]

\* res.status(s).json({success: false, error, code: s})
Reject(s, msg) ==
  [status |-> s, body |-> [success |-> "false", error |-> msg, code |-> s]]

\* the catch-all of every handler: res.status(500).json({success, error})
InternalError(msg) ==
  [status |-> 500, body |-> [success |-> "false", error |-> msg]]

\* validation passed: no response yet
Pass == [status |-> 0]

NoReq == [endpoint |-> "none"]

NoLoc == [key |-> <<>>]

NoResp == [status |-> 0]

\* a handler answers: the slot keeps the request and the response
Answer(p, r, l, out) ==
  /\ pc' = [pc EXCEPT ![p] = "done"]
  /\ req' = [req EXCEPT ![p] = r]
  /\ loc' = [loc EXCEPT ![p] = l]
  /\ resp' = [resp EXCEPT ![p] = out]

\* a handler awaits its read (`await ref.get()`, `await events.list()`): the
\* slot keeps the request and the handler's locals
Await(p, r, l) ==
  /\ pc' = [pc EXCEPT ![p] = "read"]
  /\ req' = [req EXCEPT ![p] = r]
  /\ loc' = [loc EXCEPT ![p] = l]
  /\ UNCHANGED resp

\* a handler awaits its write (`await ref.set(...)`, `await ref.update(...)`)
\* with the locals l
AwaitWrite(p, l) ==
  /\ pc' = [pc EXCEPT ![p] = "write"]
  /\ loc' = [loc EXCEPT ![p] = l]
  /\ UNCHANGED <<req, resp>>

\* a handler that has awaited answers
Respond(p, out) ==
  /\ pc' = [pc EXCEPT ![p] = "done"]
  /\ resp' = [resp EXCEPT ![p] = out]
  /\ UNCHANGED <<req, loc>>

\* what a later `new Date()` of the same stretch of code may read: the
\* instant of the earlier read, or the next one of the day
LaterReads(t) ==
  {u \in {t, t + 1} : u = t \/ t % TicksPerDay < TicksPerDay - 1}

IsComplete(item) == Truthy(Get(item, "isComplete"))

-----------------------------------------------------------------------------
(* createToDoList (journalEndpoints.ts) *)

\* the checks made before the store is read, in the order of the code
createToDoList_validate(r) ==
  IF r.method # "POST"
    THEN Reject(405, "Method not allowed. Please use POST.")
  ELSE IF ~r.hasBody
    THEN Reject(400, "Request body is required")
  ELSE IF ~Authorized(r.apikey, env.JOURNAL_API_KEY)
    THEN Reject(401, "Unauthorized: Invalid or missing API key")
  ELSE IF ~EnvelopeOk(r)
    THEN Reject(400, "Invalid request structure. Expected VAPI tool call format.")
  ELSE IF \/ ~IsArray(r.toolCallList[1].arguments, "to_do_list")
          \/ Len(r.toolCallList[1].arguments.to_do_list.elems) = 0
    THEN Reject(400, "Invalid or empty to_do_list")
  ELSE Pass

\* if (!user_id) user_id = "default_user"
createToDoList_user(args) ==
  IF Falsy(Get(args, "user_id")) THEN "default_user" ELSE args.user_id

\* to_do_list.map((item) => ({text: item, isComplete: false}))
NewTodoItems(to_do_list) ==
  [i \in 1..Len(to_do_list) |-> [text |-> to_do_list[i], isComplete |-> "false"]]

\* existingData?.items || []
ItemsOf(data) == IF "items" \in DOMAIN data THEN data.items ELSE <<>>

\* [...existingItems, ...newTodoItems]
\* a create that stores its own items in place of the list
CombinedItems_Overwrite(existingItems, newTodoItems) == newTodoItems

CombinedItems(existingItems, newTodoItems) == existingItems \o newTodoItems

\* the number of items the collection holds (the bound of the model)
RECURSIVE SumLen(_, _)
SumLen(coll, keys) ==
  IF keys = {} THEN 0
  ELSE LET k == CHOOSE x \in keys : TRUE
       IN Len(ItemsOf(coll[k])) + SumLen(coll, keys \ {k})

TotalItems(coll) == SumLen(coll, DOMAIN coll)

\* the 200 answer of createToDoList; `now` is the clock read of its timestamp
createToDoList_ok(msg, l, items, now) ==
  [status |-> 200,
   body |-> [success |-> "true", message |-> msg, timestamp |-> now,
             date |-> l.today, tool_call_id |-> l.toolCallId, items |-> items,
             itemsAdded |-> Len(l.newTodoItems)]]

\* from the start of the handler to `await todoListRef.get()`
CreateToDoListStart(p, r) ==
  /\ pc[p] = "idle"
  /\ r.endpoint = "createToDoList"
  /\ UNCHANGED <<sched, env, clock, todo, planner>>
  /\ LET v == createToDoList_validate(r) IN
     IF v.status # 0 THEN Answer(p, r, NoLoc, v)
     ELSE
       LET toolCall == r.toolCallList[1]
           args == toolCall.arguments
           today == DateKey(clock)
           key == <<createToDoList_user(args), today>>
           existingDoc == DocGet(todo, key)
           newTodoItems == NewTodoItems(args.to_do_list.elems)
       IN /\ TotalItems(todo) + Len(newTodoItems) <= MaxItems
          /\ Await(p, r, [key |-> key, today |-> today,
                          toolCallId |-> toolCall.id,
                          newTodoItems |-> newTodoItems,
                          snap |-> existingDoc])

\* from the snapshot to `await todoListRef.update(...)` or
\* `await todoListRef.set(...)`; set() is given two clock reads, created_at
\* and then updated_at
CreateToDoListWrite(p) ==
  /\ pc[p] = "read"
  /\ req[p].endpoint = "createToDoList"
  /\ UNCHANGED <<sched, env, planner>>
  /\ LET l == loc[p] IN
     IF l.snap.exists
       THEN LET combinedItems ==
                  CombinedItems(ItemsOf(l.snap.data), l.newTodoItems)
            IN /\ todo' = DocUpdate(todo, l.key,
                            [items |-> combinedItems, updated_at |-> clock,
                             vapi_tool_call_id |-> l.toolCallId])
               /\ UNCHANGED clock
               /\ AwaitWrite(p, l @@
                                [message |-> "To-do list updated successfully",
                                 items |-> combinedItems])
       ELSE \E later \in LaterReads(clock) :
            /\ todo' = DocSet(todo, l.key,
                         [items |-> l.newTodoItems, created_at |-> clock,
                          updated_at |-> later,
                          vapi_tool_call_id |-> l.toolCallId])
            /\ clock' = later
            /\ AwaitWrite(p, l @@
                             [message |-> "To-do list created successfully",
                              items |-> l.newTodoItems])

\* from the resolved write to the answer, whose timestamp is a clock read
CreateToDoListAnswer(p) ==
  /\ pc[p] = "write"
  /\ req[p].endpoint = "createToDoList"
  /\ UNCHANGED <<sched, env, clock, todo, planner>>
  /\ Respond(p, createToDoList_ok(loc[p].message, loc[p], loc[p].items, clock))

-----------------------------------------------------------------------------
(* updateToDoItems (updateMealsEndpoint.ts, second half) *)

updateToDoItems_validate(r) ==
  IF r.method # "POST"
    THEN Reject(405, "Method not allowed. Please use POST.")
  ELSE IF ~Authorized(r.apikey, env.JOURNAL_API_KEY)
    THEN Reject(401, "Unauthorized: Invalid or missing API key")
  ELSE IF ~EnvelopeOk(r)
    THEN Reject(400, "Invalid request structure. Expected VAPI tool call format.")
  ELSE IF \/ Falsy(Get(r.toolCallList[1].arguments, "user_id"))
          \/ ~IsArray(r.toolCallList[1].arguments, "items")
          \/ Len(r.toolCallList[1].arguments.items.elems) = 0
    THEN Reject(400, "Invalid request. Must provide user_id and items array.")
  ELSE Pass

\* items.map((item) => ({id: item.id,
\*   isComplete: "isComplete" in item ? item.isComplete : item.is_complete}))
MappedItems(items) ==
  [i \in 1..Len(items) |->
     [id |-> Get(items[i], "id"),
      isComplete |-> IF "isComplete" \in DOMAIN items[i]
                       THEN items[i].isComplete
                       ELSE Get(items[i], "is_complete")]]

\* mappedItems.find((update) => update.id === item.id): the index of the
\* first match, 0 when there is none
FindUpdate(mappedItems, item) ==
  LET hits == {i \in 1..Len(mappedItems) : mappedItems[i].id = Get(item, "id")}
  IN IF hits = {} THEN 0 ELSE Min(hits)

\* currentItems.map((item) => updateItem ? {...item, isComplete} : item)
UpdatedItems(currentItems, mappedItems) ==
  [i \in 1..Len(currentItems) |->
     LET u == FindUpdate(mappedItems, currentItems[i])
     IN IF u # 0
          THEN Spread(currentItems[i], "isComplete", mappedItems[u].isComplete)
          ELSE currentItems[i]]

\* the 200 answer of updateToDoItems; `now` is the clock read of its timestamp
updateToDoItems_ok(l, now) ==
  [status |-> 200,
   body |-> [success |-> "true",
             message |-> "To-do items updated successfully",
             timestamp |-> now, date |-> l.today,
             tool_call_id |-> l.toolCallId,
             updatedItems |-> Len(l.mappedItems), items |-> l.items]]

\* from the start of the handler to `await todoListRef.get()`
UpdateToDoItemsStart(p, r) ==
  /\ pc[p] = "idle"
  /\ r.endpoint = "updateToDoItems"
  /\ UNCHANGED <<sched, env, clock, todo, planner>>
  /\ LET v == updateToDoItems_validate(r) IN
     IF v.status # 0 THEN Answer(p, r, NoLoc, v)
     ELSE
       LET toolCall == r.toolCallList[1]
           args == toolCall.arguments
           today == DateKey(clock)
           key == <<args.user_id, today>>
       IN Await(p, r, [key |-> key, today |-> today,
                       toolCallId |-> toolCall.id,
                       mappedItems |-> MappedItems(args.items.elems),
                       snap |-> DocGet(todo, key)])

\* from the snapshot to `await todoListRef.update(...)`; a missing document
\* is answered 404, and update() throws, so that the handler answers 500,
\* when an item would be stored with an undefined isComplete
UpdateToDoItemsWrite(p) ==
  /\ pc[p] = "read"
  /\ req[p].endpoint = "updateToDoItems"
  /\ UNCHANGED <<sched, env, clock, planner>>
  /\ LET l == loc[p] IN
     IF ~l.snap.exists
       THEN /\ UNCHANGED todo
            /\ Respond(p, Reject(404, "No to-do list found for today"))
     ELSE
       LET updatedItems == UpdatedItems(ItemsOf(l.snap.data), l.mappedItems)
       IN IF HasUndefinedStatus(updatedItems)
            THEN /\ UNCHANGED todo
                 /\ Respond(p, InternalError(
                      "Cannot use \"undefined\" as a Firestore value"))
            ELSE /\ todo' = DocUpdate(todo, l.key,
                              [items |-> updatedItems, updated_at |-> clock,
                               vapi_tool_call_id |-> l.toolCallId])
                 /\ AwaitWrite(p, l @@ [items |-> updatedItems])

\* from the resolved write to the answer, whose timestamp is a clock read
UpdateToDoItemsAnswer(p) ==
  /\ pc[p] = "write"
  /\ req[p].endpoint = "updateToDoItems"
  /\ UNCHANGED <<sched, env, clock, todo, planner>>
  /\ Respond(p, updateToDoItems_ok(loc[p], clock))

-----------------------------------------------------------------------------
(* getTodayToDoList (updateTaskCompletionEndpoint.ts, second half) *)

getTodayToDoList_validate(r) ==
  IF r.method # "POST"
    THEN Reject(405, "Method not allowed. Please use POST.")
  ELSE IF ~Authorized(r.apikey, env.JOURNAL_API_KEY)
    THEN Reject(401, "Unauthorized: Invalid or missing API key")
  ELSE IF ~EnvelopeOk(r)
    THEN Reject(400, "Invalid request structure. Expected VAPI tool call format.")
  ELSE IF Falsy(Get(r.toolCallList[1].arguments, "user_id"))
    THEN Reject(400, "Missing user_id in request")
  ELSE Pass

\* res.status(200).json({results: [{toolCallId, result}]})
Results(toolCallId, result) ==
  [status |-> 200,
   body |-> [results |-> <<[toolCallId |-> toolCallId, result |-> result]>>]]

\* the answer of getTodayToDoList to a snapshot of today's document
getTodayToDoList_result(doc, today) ==
  IF ~doc.exists
    THEN [message |-> "No to-do list found for today", date |-> today,
          items |-> <<>>, total_items |-> 0, completed_items |-> 0]
    ELSE [message |-> "To-do list retrieved successfully", date |-> today,
          items |-> ItemsOf(doc.data),
          total_items |-> Len(ItemsOf(doc.data)),
          completed_items |-> CountIf(IsComplete, ItemsOf(doc.data))]

\* from the start of the handler to `await todoListRef.get()`
GetTodayToDoListStart(p, r) ==
  /\ pc[p] = "idle"
  /\ r.endpoint = "getTodayToDoList"
  /\ UNCHANGED <<sched, env, clock, todo, planner>>
  /\ LET v == getTodayToDoList_validate(r) IN
     IF v.status # 0 THEN Answer(p, r, NoLoc, v)
     ELSE
       LET toolCall == r.toolCallList[1]
           today == DateKey(clock)
           key == <<toolCall.arguments.user_id, today>>
       IN Await(p, r, [key |-> key, today |-> today,
                       toolCallId |-> toolCall.id,
                       snap |-> DocGet(todo, key)])

\* from the snapshot to the answer
GetTodayToDoListAnswer(p) ==
  /\ pc[p] = "read"
  /\ req[p].endpoint = "getTodayToDoList"
  /\ UNCHANGED <<sched, env, clock, todo, planner>>
  /\ Respond(p, Results(loc[p].toolCallId,
                        getTodayToDoList_result(loc[p].snap, loc[p].today)))

-----------------------------------------------------------------------------
(* updateTasks (updateTasksEndpoint.ts) *)

MAX_TASKS == 50

MAX_TASK_LENGTH == 500

TaskError_NoLength(task) ==
  IF Falsy(Get(task, "id")) \/ Falsy(Get(task, "text"))
    THEN "Each task must have id and text fields"
  ELSE IF /\ TypeOf(Get(task, "isComplete")) # "boolean"
          /\ TypeOf(Get(task, "is_complete")) # "boolean"
    THEN "Each task must have isComplete or is_complete field as boolean"
  ELSE ""

\* the checks of one task in the normalisation loop, in the order of the
\* code: the message of the first failed check, "" when the task passes
TaskError(task) ==
  IF Falsy(Get(task, "id")) \/ Falsy(Get(task, "text"))
    THEN "Each task must have id and text fields"
  ELSE IF /\ TypeOf(Get(task, "isComplete")) # "boolean"
          /\ TypeOf(Get(task, "is_complete")) # "boolean"
    THEN "Each task must have isComplete or is_complete field as boolean"
  ELSE IF StrLen(task.text) > MAX_TASK_LENGTH
    THEN "Task text too long. Maximum length: 500 characters"
  ELSE ""

\* normalizedTasks.push({id, text, isComplete})
NormalizeTask(task) ==
  [id |-> task.id, text |-> task.text,
   isComplete |-> IF TypeOf(Get(task, "isComplete")) = "boolean"
                    THEN task.isComplete ELSE task.is_complete]

NormalizedTasks(tasks) == [i \in 1..Len(tasks) |-> NormalizeTask(tasks[i])]

updateTasks_validate(r) ==
  IF r.method # "POST"
    THEN Reject(405, "Method not allowed. Please use POST.")
  ELSE IF ~Authorized(r.apikey, env.VAPI_API_KEY)
    THEN Reject(401, "Unauthorized: Invalid or missing API key")
  ELSE IF ~EnvelopeOk(r)
    THEN Reject(400, "Invalid request structure. Expected VAPI tool call format.")
  ELSE IF \/ Falsy(Get(r.toolCallList[1].arguments, "user_id"))
          \/ "tasks" \notin DOMAIN r.toolCallList[1].arguments
    THEN Reject(400, "Missing required fields: user_id or tasks")
  ELSE IF ~IsArray(r.toolCallList[1].arguments, "tasks")
    THEN Reject(400, "Tasks must be an array")
  ELSE IF Len(r.toolCallList[1].arguments.tasks.elems) > MAX_TASKS
    THEN Reject(400, "Too many tasks. Maximum allowed: 50")
  ELSE LET tasks == r.toolCallList[1].arguments.tasks.elems
           bad == {i \in 1..Len(tasks) : TaskError(tasks[i]) # ""}
       IN IF bad # {} THEN Reject(400, TaskError(tasks[Min(bad)])) ELSE Pass

EmptyMeals == [breakfast |-> "", lunch |-> "", snacks |-> "", dinner |-> ""]

\* the document updateTasks creates when today's planner does not exist
updateTasks_newPlanner(normalizedTasks, now, toolCallId) ==
  [tasks |-> normalizedTasks, meals |-> EmptyMeals, createdAt |-> now,
   lastModified |-> now, modifiedBy |-> toolCallId]

\* the fields updateTasks writes into an existing planner
updateTasks_patch(normalizedTasks, now, toolCallId) ==
  [tasks |-> normalizedTasks, lastModified |-> now, modifiedBy |-> toolCallId]

\* TasksResponse
TasksResponse(msg, now, toolCallId, tasks) ==
  [success |-> "true", message |-> msg, timestamp |-> now,
   operation_id |-> toolCallId, tasks |-> tasks,
   total_tasks |-> Len(tasks), completed_tasks |-> CountIf(IsComplete, tasks)]

\* from the start of the handler to `await plannerRef.get()`
UpdateTasksStart(p, r) ==
  /\ pc[p] = "idle"
  /\ r.endpoint = "updateTasks"
  /\ UNCHANGED <<sched, env, clock, todo, planner>>
  /\ LET v == updateTasks_validate(r) IN
     IF v.status # 0 THEN Answer(p, r, NoLoc, v)
     ELSE
       LET toolCall == r.toolCallList[1]
           args == toolCall.arguments
           today == DateKey(clock)
           key == <<args.user_id, today>>
       IN Await(p, r, [key |-> key, today |-> today,
                       toolCallId |-> toolCall.id,
                       normalizedTasks |-> NormalizedTasks(args.tasks.elems),
                       snap |-> DocGet(planner, key)])

\* from the snapshot, with `now` read from the clock, to
\* `await plannerRef.set(newPlanner)` or `await plannerRef.update(...)`
UpdateTasksWrite(p) ==
  /\ pc[p] = "read"
  /\ req[p].endpoint = "updateTasks"
  /\ UNCHANGED <<sched, env, clock, todo>>
  /\ LET l == loc[p]
         now == clock
     IN /\ planner' =
             IF ~l.snap.exists
               THEN DocSet(planner, l.key,
                      updateTasks_newPlanner(l.normalizedTasks, now, l.toolCallId))
               ELSE DocUpdate(planner, l.key,
                      updateTasks_patch(l.normalizedTasks, now, l.toolCallId))
        /\ AwaitWrite(p, l @@ [now |-> now])

\* from the resolved write to the answer
UpdateTasksAnswer(p) ==
  /\ pc[p] = "write"
  /\ req[p].endpoint = "updateTasks"
  /\ UNCHANGED <<sched, env, clock, todo, planner>>
  /\ Respond(p, Results(loc[p].toolCallId,
                        TasksResponse("Tasks updated successfully", loc[p].now,
                                      loc[p].toolCallId,
                                      loc[p].normalizedTasks)))

-----------------------------------------------------------------------------
(* updateMeals (updateMealsEndpoint.ts, first half) *)

MAX_MEAL_LENGTH == 1000

requiredMealTypes == <<"breakfast", "lunch", "snacks", "dinner">>

\* the checks of one meal type in the validation loop: the message of the
\* first failed check, "" when the meal type passes
\* a check that lets a missing meal through
MealError_Partial(meals, mealType) ==
  IF mealType \notin DOMAIN meals THEN ""
  ELSE IF TypeOf(meals[mealType]) # "string"
    THEN "Invalid or missing " \o mealType \o " in meals object"
  ELSE IF StrLen(meals[mealType]) > MAX_MEAL_LENGTH
    THEN mealType \o " description too long. Maximum length: 1000 characters"
  ELSE ""

MealError(meals, mealType) ==
  IF TypeOf(Get(meals, mealType)) # "string"
    THEN "Invalid or missing " \o mealType \o " in meals object"
  ELSE IF StrLen(meals[mealType]) > MAX_MEAL_LENGTH
    THEN mealType \o " description too long. Maximum length: 1000 characters"
  ELSE ""

updateMeals_validate(r) ==
  IF r.method # "POST"
    THEN Reject(405, "Method not allowed. Please use POST.")
  ELSE IF ~Authorized(r.apikey, env.JOURNAL_API_KEY)
    THEN Reject(401, "Unauthorized: Invalid or missing API key")
  ELSE IF ~EnvelopeOk(r)
    THEN Reject(400, "Invalid request structure. Expected VAPI tool call format.")
  ELSE IF \/ Falsy(Get(r.toolCallList[1].arguments, "user_id"))
          \/ "meals" \notin DOMAIN r.toolCallList[1].arguments
          \/ Falsy(Get(r.toolCallList[1].arguments, "tool_id"))
    THEN Reject(400, "Missing required fields: user_id, meals, or tool_id")
  ELSE LET meals == r.toolCallList[1].arguments.meals
           bad == {i \in 1..Len(requiredMealTypes) :
                     MealError(meals, requiredMealTypes[i]) # ""}
       IN IF bad # {}
            THEN Reject(400, MealError(meals, requiredMealTypes[Min(bad)]))
            ELSE Pass

\* the document updateMeals creates when today's planner does not exist
updateMeals_newPlanner(meals, now, tool_id) ==
  [tasks |-> <<>>, meals |-> meals, createdAt |-> now, lastModified |-> now,
   modifiedBy |-> tool_id]

\* the fields updateMeals writes into an existing planner
updateMeals_patch(meals, now, tool_id) ==
  [meals |-> meals, lastModified |-> now, modifiedBy |-> tool_id]

\* from the start of the handler to `await plannerRef.get()`
UpdateMealsStart(p, r) ==
  /\ pc[p] = "idle"
  /\ r.endpoint = "updateMeals"
  /\ UNCHANGED <<sched, env, clock, todo, planner>>
  /\ LET v == updateMeals_validate(r) IN
     IF v.status # 0 THEN Answer(p, r, NoLoc, v)
     ELSE
       LET toolCall == r.toolCallList[1]
           args == toolCall.arguments
           today == DateKey(clock)
           key == <<args.user_id, today>>
       IN Await(p, r, [key |-> key, today |-> today,
                       toolCallId |-> toolCall.id, tool_id |-> args.tool_id,
                       meals |-> args.meals,
                       snap |-> DocGet(planner, key)])

\* from the snapshot, with `now` read from the clock, to
\* `await plannerRef.set(newPlanner)` or `await plannerRef.update(...)`
UpdateMealsWrite(p) ==
  /\ pc[p] = "read"
  /\ req[p].endpoint = "updateMeals"
  /\ UNCHANGED <<sched, env, clock, todo>>
  /\ LET l == loc[p]
         now == clock
     IN /\ planner' =
             IF ~l.snap.exists
               THEN DocSet(planner, l.key,
                      updateMeals_newPlanner(l.meals, now, l.tool_id))
               ELSE DocUpdate(planner, l.key,
                      updateMeals_patch(l.meals, now, l.tool_id))
        /\ AwaitWrite(p, l @@ [now |-> now])

\* the result of the 200 answer of updateMeals: MealsResponse
MealsResponse(now, toolCallId, meals) ==
  [success |-> "true", message |-> "Meals updated successfully",
   timestamp |-> now, operation_id |-> toolCallId, meals |-> meals]

\* from the resolved write to the answer
UpdateMealsAnswer(p) ==
  /\ pc[p] = "write"
  /\ req[p].endpoint = "updateMeals"
  /\ UNCHANGED <<sched, env, clock, todo, planner>>
  /\ Respond(p, Results(loc[p].toolCallId,
                        MealsResponse(loc[p].now, loc[p].toolCallId,
                                      loc[p].meals)))

-----------------------------------------------------------------------------
(* updateTaskCompletion (updateTaskCompletionEndpoint.ts, first half) *)

updateTaskCompletion_validate(r) ==
  IF r.method # "POST"
    THEN Reject(405, "Method not allowed. Please use POST.")
  ELSE IF ~Authorized(r.apikey, env.JOURNAL_API_KEY)
    THEN Reject(401, "Unauthorized: Invalid or missing API key")
  ELSE IF ~EnvelopeOk(r)
    THEN Reject(400, "Invalid request structure. Expected VAPI tool call format.")
  ELSE IF \/ Falsy(Get(r.toolCallList[1].arguments, "user_id"))
          \/ Falsy(Get(r.toolCallList[1].arguments, "task_id"))
          \/ TypeOf(Get(r.toolCallList[1].arguments, "is_complete")) # "boolean"
          \/ Falsy(Get(r.toolCallList[1].arguments, "tool_id"))
    THEN Reject(400,
      "Missing or invalid required fields: user_id, task_id, is_complete, or tool_id")
  ELSE Pass

\* data.tasks.findIndex((task) => task.id === task_id): 1-based, 0 for -1
\* a search that falls back on the first task
FindTaskIndex_First(tasks, task_id) ==
  LET hits == {i \in 1..Len(tasks) : tasks[i].id = task_id}
  IN IF hits = {} THEN (IF Len(tasks) > 0 THEN 1 ELSE 0) ELSE Min(hits)

FindTaskIndex(tasks, task_id) ==
  LET hits == {i \in 1..Len(tasks) : tasks[i].id = task_id}
  IN IF hits = {} THEN 0 ELSE Min(hits)

\* data.tasks[taskIndex].isComplete = is_complete
SetTaskComplete(tasks, taskIndex, is_complete) ==
  [tasks EXCEPT ![taskIndex].isComplete = is_complete]

\* a handler that reads today's planner before it checks the fields of its
\* arguments
UpdateTaskCompletionStart_ReadFirst(p, r) ==
  /\ pc[p] = "idle"
  /\ r.endpoint = "updateTaskCompletion"
  /\ UNCHANGED <<sched, env, clock, todo, planner>>
  /\ LET v == updateTaskCompletion_validate(r) IN
     IF v.status # 0 /\ (v.status # 400 \/ ~EnvelopeOk(r))
       THEN Answer(p, r, NoLoc, v)
     ELSE
       LET toolCall == r.toolCallList[1]
           args == toolCall.arguments
           today == DateKey(clock)
           key == <<Get(args, "user_id"), today>>
           l == [key |-> key, today |-> today, toolCallId |-> toolCall.id,
                 tool_id |-> Get(args, "tool_id"),
                 snap |-> DocGet(planner, key)]
       IN IF v.status # 0 THEN Answer(p, r, l, v) ELSE Await(p, r, l)

\* from the start of the handler to `await plannerRef.get()`
UpdateTaskCompletionStart(p, r) ==
  /\ pc[p] = "idle"
  /\ r.endpoint = "updateTaskCompletion"
  /\ UNCHANGED <<sched, env, clock, todo, planner>>
  /\ LET v == updateTaskCompletion_validate(r) IN
     IF v.status # 0 THEN Answer(p, r, NoLoc, v)
     ELSE
       LET toolCall == r.toolCallList[1]
           args == toolCall.arguments
           today == DateKey(clock)
           key == <<args.user_id, today>>
       IN Await(p, r, [key |-> key, today |-> today,
                       toolCallId |-> toolCall.id, tool_id |-> args.tool_id,
                       snap |-> DocGet(planner, key)])

\* from the snapshot, with `now` read from the clock, through the search of
\* the task to `await plannerRef.update(...)` with the whole task list of
\* the snapshot; a missing planner or task is answered 404
UpdateTaskCompletionWrite(p) ==
  /\ pc[p] = "read"
  /\ req[p].endpoint = "updateTaskCompletion"
  /\ UNCHANGED <<sched, env, clock, todo>>
  /\ LET l == loc[p]
         args == req[p].toolCallList[1].arguments
         now == clock
     IN IF ~l.snap.exists
          THEN /\ UNCHANGED planner
               /\ Respond(p, Reject(404, "No planner found for today"))
        ELSE IF FindTaskIndex(l.snap.data.tasks, args.task_id) = 0
          THEN /\ UNCHANGED planner
               /\ Respond(p, Reject(404, "Task not found"))
        ELSE
          LET tasks == SetTaskComplete(l.snap.data.tasks,
                         FindTaskIndex(l.snap.data.tasks, args.task_id),
                         args.is_complete)
          IN /\ planner' = DocUpdate(planner, l.key,
                             [tasks |-> tasks, lastModified |-> now,
                              modifiedBy |-> l.tool_id])
             /\ AwaitWrite(p, l @@ [now |-> now, tasks |-> tasks])

\* from the resolved write to the answer
UpdateTaskCompletionAnswer(p) ==
  /\ pc[p] = "write"
  /\ req[p].endpoint = "updateTaskCompletion"
  /\ UNCHANGED <<sched, env, clock, todo, planner>>
  /\ Respond(p, Results(loc[p].toolCallId,
                        TasksResponse(
                          IF req[p].toolCallList[1].arguments.is_complete = "true"
                            THEN "Task marked as complete"
                            ELSE "Task marked as incomplete",
                          loc[p].now, loc[p].toolCallId, loc[p].tasks)))

-----------------------------------------------------------------------------
(* getTodaysPlanner *)

getTodaysPlanner_validate(r) ==
  IF r.method # "POST"
    THEN Reject(405, "Method not allowed. Please use POST.")
  ELSE IF ~Authorized(r.apikey, env.JOURNAL_API_KEY)
    THEN Reject(401, "Unauthorized: Invalid or missing API key")
  ELSE IF ~EnvelopeOk(r)
    THEN Reject(400, "Invalid request structure. Expected VAPI tool call format.")
  ELSE IF Falsy(Get(r.toolCallList[1].arguments, "user_id"))
    THEN Reject(400, "Missing user_id in request")
  ELSE Pass

\* the answer of getTodaysPlanner to a snapshot of today's document
\* an answer whose default has no meals
getTodaysPlanner_result_NoMeals(doc, today) ==
  IF ~doc.exists
    THEN [message |-> "No planner found for today", date |-> today,
          tasks |-> <<>>, total_tasks |-> 0, completed_tasks |-> 0]
    ELSE [message |-> "Planner retrieved successfully", date |-> today,
          tasks |-> doc.data.tasks, meals |-> doc.data.meals,
          total_tasks |-> Len(doc.data.tasks),
          completed_tasks |-> CountIf(IsComplete, doc.data.tasks)]

getTodaysPlanner_result(doc, today) ==
  IF ~doc.exists
    THEN [message |-> "No planner found for today", date |-> today,
          tasks |-> <<>>, meals |-> EmptyMeals,
          total_tasks |-> 0, completed_tasks |-> 0]
    ELSE [message |-> "Planner retrieved successfully", date |-> today,
          tasks |-> doc.data.tasks, meals |-> doc.data.meals,
          total_tasks |-> Len(doc.data.tasks),
          completed_tasks |-> CountIf(IsComplete, doc.data.tasks)]

\* from the start of the handler to `await plannerRef.get()`
GetTodaysPlannerStart(p, r) ==
  /\ pc[p] = "idle"
  /\ r.endpoint = "getTodaysPlanner"
  /\ UNCHANGED <<sched, env, clock, todo, planner>>
  /\ LET v == getTodaysPlanner_validate(r) IN
     IF v.status # 0 THEN Answer(p, r, NoLoc, v)
     ELSE
       LET toolCall == r.toolCallList[1]
           today == DateKey(clock)
           key == <<toolCall.arguments.user_id, today>>
       IN Await(p, r, [key |-> key, today |-> today,
                       toolCallId |-> toolCall.id,
                       snap |-> DocGet(planner, key)])

\* from the snapshot to the answer
GetTodaysPlannerAnswer(p) ==
  /\ pc[p] = "read"
  /\ req[p].endpoint = "getTodaysPlanner"
  /\ UNCHANGED <<sched, env, clock, todo, planner>>
  /\ Respond(p, Results(loc[p].toolCallId,
                        getTodaysPlanner_result(loc[p].snap, loc[p].today)))

-----------------------------------------------------------------------------
(* The environment of the handlers: configuration, time, clients *)

\* process.env: JOURNAL_API_KEY gates the to-do endpoints, getTodaysPlanner,
\* updateMeals and updateTaskCompletion; VAPI_API_KEY gates updateTasks
EnvConfigs ==
  {[JOURNAL_API_KEY |-> "k1", VAPI_API_KEY |-> "k2"],
   [JOURNAL_API_KEY |-> "k1", VAPI_API_KEY |-> "k1"],
   [JOURNAL_API_KEY |-> "", VAPI_API_KEY |-> ""]}

DeployedEnv == [JOURNAL_API_KEY |-> "k1", VAPI_API_KEY |-> "k2"]

\* the id of the first tool call of the request slot p sends
CallId(p) ==
  CASE p = 1 -> "call_1" [] p = 2 -> "call_2" [] p = 3 -> "call_3"
    [] OTHER -> "call_n"

\* a POST request with a body that holds one tool call
Post(endpoint, apikey, id, args) ==
  [endpoint |-> endpoint, method |-> "POST", apikey |-> apikey,
   hasBody |-> TRUE, toolCallList |-> <<[id |-> id, arguments |-> args]>>]

\* requests that fail the checks made before the arguments are read
Malformed(endpoint, apikey, id, args) ==
  {[Post(endpoint, apikey, id, args) EXCEPT !.method = "GET"],
   Post(endpoint, "wrong", id, args),
   [Post(endpoint, apikey, id, args) EXCEPT !.apikey = Undefined],
   [Post(endpoint, apikey, id, args) EXCEPT !.hasBody = FALSE,
                                            !.toolCallList = <<>>],
   [Post(endpoint, apikey, id, args) EXCEPT !.toolCallList = <<>>],
   [Post(endpoint, apikey, id, args) EXCEPT !.toolCallList = <<[id |-> id]>>]}

\* a to-do document as the companion client writes it: items that conform
\* to ToDoItem (todoTypes.ts), with ids that are unique in the document
ClientToDoDoc ==
  [items |-> <<[id |-> "i1", text |-> "A", isComplete |-> "false",
                createdAt |-> 0],
               [id |-> "i2", text |-> "B", isComplete |-> "false",
                createdAt |-> 0]>>,
   created_at |-> 0, updated_at |-> 0]

\* the to-do collection when the functions start: empty, or holding today's
\* list of user u1 as the client wrote it
InitialToDo == {<<>>, [k \in {<<"u1", 0>>} |-> ClientToDoDoc]}

\* time passes within the UTC day
Tick ==
  /\ clock % TicksPerDay < TicksPerDay - 1
  /\ clock' = clock + 1
  /\ UNCHANGED <<sched, env, todo, planner, pc, req, loc, resp>>

\* the answered requests leave: once no request is in flight, every slot is
\* free for a new request
Reset ==
  /\ \A p \in Procs : pc[p] \in {"idle", "done"}
  /\ \E p \in Procs : pc[p] = "done"
  /\ pc' = [p \in Procs |-> "idle"]
  /\ req' = [p \in Procs |-> NoReq]
  /\ loc' = [p \in Procs |-> NoLoc]
  /\ resp' = [p \in Procs |-> NoResp]
  /\ UNCHANGED <<sched, env, clock, todo, planner>>

IdleSlots ==
  /\ pc = [p \in Procs |-> "idle"]
  /\ req = [p \in Procs |-> NoReq]
  /\ loc = [p \in Procs |-> NoLoc]
  /\ resp = [p \in Procs |-> NoResp]

\* no profile, no call and nothing parsed: the scheduler at rest
NoScheduling ==
  /\ wallClock = 0
  /\ timeString = <<>>
  /\ parsed = [returned |-> FALSE]
  /\ users = <<>>
  /\ calls = <<>>

-----------------------------------------------------------------------------
(* SpecToDoSeq: requests to the to-do endpoints, one after another *)

ToDoLists == {<<"A">>, <<"B">>, <<"A", "B">>}

ToDoUpdates ==
  {<<[id |-> "i1", isComplete |-> "true"]>>,
   <<[id |-> "i1", is_complete |-> "false"]>>,
   <<[id |-> "i2", is_complete |-> "true"]>>,
   <<[id |-> "zz", isComplete |-> "true"]>>,
   <<[id |-> "i1", isComplete |-> "true"], [id |-> "zz", isComplete |-> "true"]>>,
   <<[isComplete |-> "true"]>>,
   <<[id |-> "i1"]>>,
   <<[id |-> "i1", isComplete |-> "yes"]>>}

CreateToDoRequests(id) ==
  {Post("createToDoList", "k1", id, [to_do_list |-> Arr(l), user_id |-> "u1"])
     : l \in ToDoLists}
  \cup {Post("createToDoList", "k1", id, [to_do_list |-> Arr(<<"A">>)]),
        Post("createToDoList", "k1", id, [to_do_list |-> Arr(<<>>), user_id |-> "u1"]),
        Post("createToDoList", "k1", id, [to_do_list |-> NotArr, user_id |-> "u1"]),
        Post("createToDoList", "k1", id, [user_id |-> "u1"])}

UpdateToDoRequests(id) ==
  {Post("updateToDoItems", "k1", id, [items |-> Arr(u), user_id |-> "u1"])
     : u \in ToDoUpdates}
  \cup {Post("updateToDoItems", "k1", id, [items |-> Arr(<<>>), user_id |-> "u1"]),
        Post("updateToDoItems", "k1", id, [user_id |-> "u1"])}

GetToDoRequests(id) ==
  {Post("getTodayToDoList", "k1", id, [user_id |-> "u1"]),
   Post("getTodayToDoList", "k1", id, [other |-> "x"])}

ToDoRequests(id) ==
  CreateToDoRequests(id) \cup UpdateToDoRequests(id) \cup GetToDoRequests(id)
  \cup Malformed("createToDoList", "k1", id,
                 [to_do_list |-> Arr(<<"A">>), user_id |-> "u1"])

InitToDoSeq ==
  /\ env = DeployedEnv
  /\ clock = 0
  /\ todo \in InitialToDo
  /\ planner = <<>>
  /\ IdleSlots
  /\ NoScheduling

NextToDoSeq ==
  \/ \E r \in ToDoRequests(CallId(1)) : CreateToDoListStart(1, r)
  \/ CreateToDoListWrite(1)
  \/ CreateToDoListAnswer(1)
  \/ \E r \in ToDoRequests(CallId(1)) : UpdateToDoItemsStart(1, r)
  \/ UpdateToDoItemsWrite(1)
  \/ UpdateToDoItemsAnswer(1)
  \/ \E r \in ToDoRequests(CallId(1)) : GetTodayToDoListStart(1, r)
  \/ GetTodayToDoListAnswer(1)
  \/ Reset
  \/ Tick

SpecToDoSeq == InitToDoSeq /\ [][NextToDoSeq]_vars

-----------------------------------------------------------------------------
(* SpecToDo: concurrent requests to the to-do endpoints *)

RaceToDoRequests(id) ==
  {Post("createToDoList", "k1", id, [to_do_list |-> Arr(l), user_id |-> "u1"])
     : l \in {<<"A">>, <<"B">>}}
  \cup {Post("updateToDoItems", "k1", id, [items |-> Arr(u), user_id |-> "u1"])
          : u \in {<<[id |-> "i1", isComplete |-> "true"]>>,
                   <<[isComplete |-> "true"]>>}}
  \cup {Post("getTodayToDoList", "k1", id, [user_id |-> "u1"])}

InitToDo ==
  /\ env = DeployedEnv
  /\ clock = 0
  /\ todo \in InitialToDo
  /\ planner = <<>>
  /\ IdleSlots
  /\ NoScheduling

NextToDo ==
  \/ \E p \in Procs : \E r \in RaceToDoRequests(CallId(p)) : CreateToDoListStart(p, r)
  \/ \E p \in Procs : CreateToDoListWrite(p)
  \/ \E p \in Procs : CreateToDoListAnswer(p)
  \/ \E p \in Procs : \E r \in RaceToDoRequests(CallId(p)) : UpdateToDoItemsStart(p, r)
  \/ \E p \in Procs : UpdateToDoItemsWrite(p)
  \/ \E p \in Procs : UpdateToDoItemsAnswer(p)
  \/ \E p \in Procs : \E r \in RaceToDoRequests(CallId(p)) : GetTodayToDoListStart(p, r)
  \/ \E p \in Procs : GetTodayToDoListAnswer(p)
  \/ Reset
  \/ Tick

SpecToDo == InitToDo /\ [][NextToDo]_vars

-----------------------------------------------------------------------------
(* SpecPlannerSeq: requests to the planner endpoints and to the two read   *)
(* endpoints, one after another                                            *)

Task(id, text, isComplete) == [id |-> id, text |-> text, isComplete |-> isComplete]

\* more tasks than MAX_TASKS
TooManyTasks == [i \in 1..(MAX_TASKS + 1) |-> Task("t1", "A", "false")]

TaskLists ==
  {<<>>,
   <<Task("t1", "A", "false")>>,
   <<Task("t1", "A", "false"), Task("t2", "B", "false")>>,
   <<Task("t1", "A", "false"), Task("t1", "B", "true")>>,
   <<[id |-> "t1", text |-> "A", is_complete |-> "true"]>>,
   <<[id |-> "t2", text |-> "B", isComplete |-> "false", is_complete |-> "true"]>>}

BadTaskLists ==
  {<<Task("t1", "A", "false"), [text |-> "B", isComplete |-> "false"]>>,
   <<Task("t1", "A", "false"), [id |-> "t2", text |-> "B"]>>,
   <<Task("t1", "A", "false"), Task("t2", "LONG_TASK_TEXT", "false")>>,
   <<[id |-> "t1", text |-> "A", isComplete |-> "yes"]>>,
   TooManyTasks}

UpdateTasksRequests(id) ==
  {Post("updateTasks", "k2", id, [user_id |-> "u1", tasks |-> Arr(t)])
     : t \in TaskLists \cup BadTaskLists}
  \cup {Post("updateTasks", "k2", id, [user_id |-> "u1", tasks |-> NotArr]),
        Post("updateTasks", "k2", id, [user_id |-> "u1"]),
        Post("updateTasks", "k2", id, [tasks |-> Arr(<<>>)])}

MealPlans ==
  {[breakfast |-> "eggs", lunch |-> "", snacks |-> "", dinner |-> ""],
   [breakfast |-> "", lunch |-> "soup", snacks |-> "nuts", dinner |-> "rice"]}

BadMealPlans ==
  {[lunch |-> "soup"],
   [breakfast |-> "eggs", lunch |-> "soup", snacks |-> "nuts"],
   [breakfast |-> "5", lunch |-> "", snacks |-> "", dinner |-> ""],
   [breakfast |-> "", lunch |-> "", snacks |-> "", dinner |-> "LONG_MEAL_TEXT"]}

UpdateMealsRequests(id) ==
  {Post("updateMeals", "k1", id,
        [user_id |-> "u1", meals |-> m, tool_id |-> "tool"])
     : m \in MealPlans \cup BadMealPlans}
  \cup {Post("updateMeals", "k1", id,
             [user_id |-> "u1",
              meals |-> [breakfast |-> "eggs", lunch |-> "", snacks |-> "",
                         dinner |-> ""]]),
        Post("updateMeals", "k1", id, [user_id |-> "u1", tool_id |-> "tool"])}

UpdateTaskCompletionRequests(id) ==
  {Post("updateTaskCompletion", "k1", id,
        [user_id |-> "u1", task_id |-> t, is_complete |-> c, tool_id |-> "tool"])
     : t \in {"t1", "t2", "zz"}, c \in {"true", "false"}}
  \cup {Post("updateTaskCompletion", "k1", id,
             [user_id |-> "u1", task_id |-> "t1", is_complete |-> "true"]),
        Post("updateTaskCompletion", "k1", id,
             [user_id |-> "u1", task_id |-> "t1", is_complete |-> "yes",
              tool_id |-> "tool"]),
        Post("updateTaskCompletion", "k1", id,
             [user_id |-> "u1", is_complete |-> "true", tool_id |-> "tool"])}

GetPlannerRequests(id) ==
  {Post("getTodaysPlanner", "k1", id, [user_id |-> "u1"]),
   Post("getTodaysPlanner", "k1", id, [other |-> "x"])}

PlannerRequests(id) ==
  UpdateTasksRequests(id) \cup UpdateMealsRequests(id)
  \cup UpdateTaskCompletionRequests(id) \cup GetPlannerRequests(id)
  \cup GetToDoRequests(id)
  \cup Malformed("updateTasks", "k2", id,
                 [user_id |-> "u1", tasks |-> Arr(<<Task("t1", "A", "false")>>)])

InitPlannerSeq ==
  /\ env = DeployedEnv
  /\ clock = 0
  /\ todo \in InitialToDo
  /\ planner = <<>>
  /\ IdleSlots
  /\ NoScheduling

NextPlannerSeq ==
  \/ \E r \in PlannerRequests(CallId(1)) : UpdateTasksStart(1, r)
  \/ UpdateTasksWrite(1)
  \/ UpdateTasksAnswer(1)
  \/ \E r \in PlannerRequests(CallId(1)) : UpdateMealsStart(1, r)
  \/ UpdateMealsWrite(1)
  \/ UpdateMealsAnswer(1)
  \/ \E r \in PlannerRequests(CallId(1)) : UpdateTaskCompletionStart(1, r)
  \/ UpdateTaskCompletionWrite(1)
  \/ UpdateTaskCompletionAnswer(1)
  \/ \E r \in PlannerRequests(CallId(1)) : GetTodaysPlannerStart(1, r)
  \/ GetTodaysPlannerAnswer(1)
  \/ \E r \in PlannerRequests(CallId(1)) : GetTodayToDoListStart(1, r)
  \/ GetTodayToDoListAnswer(1)
  \/ Reset
  \/ Tick

SpecPlannerSeq == InitPlannerSeq /\ [][NextPlannerSeq]_vars

-----------------------------------------------------------------------------
(* SpecPlanner: concurrent requests to the planner endpoints *)

RacePlannerRequests(id) ==
  {Post("updateTasks", "k2", id,
        [user_id |-> "u1",
         tasks |-> Arr(<<Task("t1", "A", "false"), Task("t2", "B", "false")>>)]),
   Post("updateMeals", "k1", id,
        [user_id |-> "u1", tool_id |-> "tool",
         meals |-> [breakfast |-> "eggs", lunch |-> "", snacks |-> "",
                    dinner |-> ""]]),
   Post("updateTaskCompletion", "k1", id,
        [user_id |-> "u1", task_id |-> "t1", is_complete |-> "true",
         tool_id |-> "tool"]),
   Post("updateTaskCompletion", "k1", id,
        [user_id |-> "u1", task_id |-> "t2", is_complete |-> "true",
         tool_id |-> "tool"]),
   Post("getTodaysPlanner", "k1", id, [user_id |-> "u1"])}

InitPlanner ==
  /\ env = DeployedEnv
  /\ clock = 0
  /\ todo = <<>>
  /\ planner = <<>>
  /\ IdleSlots
  /\ NoScheduling

NextPlanner ==
  \/ \E p \in Procs : \E r \in RacePlannerRequests(CallId(p)) : UpdateTasksStart(p, r)
  \/ \E p \in Procs : UpdateTasksWrite(p)
  \/ \E p \in Procs : UpdateTasksAnswer(p)
  \/ \E p \in Procs : \E r \in RacePlannerRequests(CallId(p)) : UpdateMealsStart(p, r)
  \/ \E p \in Procs : UpdateMealsWrite(p)
  \/ \E p \in Procs : UpdateMealsAnswer(p)
  \/ \E p \in Procs : \E r \in RacePlannerRequests(CallId(p)) :
        UpdateTaskCompletionStart(p, r)
  \/ \E p \in Procs : UpdateTaskCompletionWrite(p)
  \/ \E p \in Procs : UpdateTaskCompletionAnswer(p)
  \/ \E p \in Procs : \E r \in RacePlannerRequests(CallId(p)) : GetTodaysPlannerStart(p, r)
  \/ \E p \in Procs : GetTodaysPlannerAnswer(p)
  \/ Reset
  \/ Tick

SpecPlanner == InitPlanner /\ [][NextPlanner]_vars

-----------------------------------------------------------------------------
(* SpecDays: requests to createToDoList, updateTasks and                   *)
(* updateTaskCompletion, one after another, over the change of the UTC day *)

LastDay == 1

\* time passes up to the start of the next UTC day
Midnight ==
  /\ clock \div TicksPerDay < LastDay
  /\ clock' = (clock \div TicksPerDay + 1) * TicksPerDay
  /\ UNCHANGED <<sched, env, todo, planner, pc, req, loc, resp>>

DayRequests(id) ==
  {Post("createToDoList", "k1", id, [to_do_list |-> Arr(<<"A">>)]),
   Post("updateTasks", "k2", id,
        [user_id |-> "u1", tasks |-> Arr(<<Task("t1", "A", "false")>>)]),
   Post("updateTaskCompletion", "k1", id,
        [user_id |-> "u1", task_id |-> "t1", is_complete |-> "true",
         tool_id |-> "tool"])}

InitDays ==
  /\ env = DeployedEnv
  /\ clock = 0
  /\ todo \in InitialToDo
  /\ planner = <<>>
  /\ IdleSlots
  /\ NoScheduling

NextDays ==
  \/ \E r \in DayRequests(CallId(1)) : CreateToDoListStart(1, r)
  \/ CreateToDoListWrite(1)
  \/ CreateToDoListAnswer(1)
  \/ \E r \in DayRequests(CallId(1)) : UpdateTasksStart(1, r)
  \/ UpdateTasksWrite(1)
  \/ UpdateTasksAnswer(1)
  \/ \E r \in DayRequests(CallId(1)) : UpdateTaskCompletionStart(1, r)
  \/ UpdateTaskCompletionWrite(1)
  \/ UpdateTaskCompletionAnswer(1)
  \/ Reset
  \/ Midnight

SpecDays == InitDays /\ [][NextDays]_vars

-----------------------------------------------------------------------------
(* getCalendarEvents (getCalendarEventsEndpoint.ts).  The sources hold two *)
(* versions of the handler: the one of unnamed/part_005 requires a user_id *)
(* in the arguments, the one of unnamed/part_004 does not read them.  A    *)
(* request names the version it is sent to by its endpoint.                *)

\* the endpoint of the version of unnamed/part_004
AnyArguments == "getCalendarEvents (unnamed/part_004)"

\* the properties of a Google Calendar event that the handler copies
CalendarEventFields ==
  {"id", "summary", "description", "location", "start", "end", "attendees",
   "organizer", "status", "htmlLink"}

\* what calendar.events.list may do: answer with or without items and a page
\* token, or throw
CalendarOutcomes ==
  {[ok |-> TRUE, data |-> [kind |-> "calendar#events"]],
   [ok |-> TRUE, data |-> [items |-> <<>>]],
   [ok |-> TRUE,
    data |-> [items |-> <<[id |-> "e1", summary |-> "standup",
                           status |-> "confirmed", etag |-> "x"]>>,
              nextPageToken |-> "page2"]],
   [ok |-> FALSE, message |-> "Invalid Credentials"]}

getCalendarEvents_validate(r) ==
  IF r.method # "POST"
    THEN Reject(405, "Method not allowed. Please use POST.")
  ELSE IF ~Authorized(r.apikey, env.VAPI_API_KEY)
    THEN Reject(401, "Unauthorized: Invalid or missing API key")
  ELSE IF ~EnvelopeOk(r)
    THEN Reject(400, "Invalid request structure. Expected VAPI tool call format.")
  ELSE IF Falsy(Get(r.toolCallList[1].arguments, "user_id"))
    THEN Reject(400, "Missing user_id in request")
  ELSE Pass

\* the checks of the version that does not read the arguments
getCalendarEvents_validateStructure(r) ==
  IF r.method # "POST"
    THEN Reject(405, "Method not allowed. Please use POST.")
  ELSE IF ~Authorized(r.apikey, env.VAPI_API_KEY)
    THEN Reject(401, "Unauthorized: Invalid or missing API key")
  ELSE IF ~EnvelopeOk(r)
    THEN Reject(400, "Invalid request structure. Expected VAPI tool call format.")
  ELSE Pass

\* response.data.items?.map(...) || []
CalendarEvents(data) ==
  IF "items" \notin DOMAIN data THEN <<>>
  ELSE [i \in 1..Len(data.items) |->
          [f \in DOMAIN data.items[i] \cap CalendarEventFields |->
             data.items[i][f]]]

\* the result of the 200 answer; JSON leaves an undefined nextPageToken out
getCalendarEvents_result(data) ==
  LET events == CalendarEvents(data)
      result == [message |-> "Calendar events retrieved successfully",
                 events |-> events, total_events |-> Len(events)]
  IN IF "nextPageToken" \in DOMAIN data
       THEN Spread(result, "nextPageToken", data.nextPageToken)
       ELSE result

\* from the start of the handler to `await calendarWithAuth.events.list(...)`;
\* the handler has no document of its own, and what it asks the calendar
\* service (the next 24 hours of the primary calendar) is not part of the
\* state
GetCalendarEventsStart(p, r) ==
  /\ pc[p] = "idle"
  /\ r.endpoint = "getCalendarEvents"
  /\ UNCHANGED <<sched, env, clock, todo, planner>>
  /\ LET v == getCalendarEvents_validate(r) IN
     IF v.status # 0 THEN Answer(p, r, NoLoc, v)
     ELSE Await(p, r, [key |-> <<>>, toolCallId |-> r.toolCallList[1].id])

\* from the answer of the calendar service, or its failure, to the answer
GetCalendarEventsAnswer(p) ==
  /\ pc[p] = "read"
  /\ req[p].endpoint = "getCalendarEvents"
  /\ UNCHANGED <<sched, env, clock, todo, planner>>
  /\ \E out \in CalendarOutcomes :
       IF out.ok
         THEN Respond(p, Results(loc[p].toolCallId,
                                 getCalendarEvents_result(out.data)))
         ELSE Respond(p, InternalError(out.message))

\* the version that does not read the arguments, from its start to
\* `await calendarWithAuth.events.list(...)`
GetCalendarEventsAnyArgumentsStart(p, r) ==
  /\ pc[p] = "idle"
  /\ r.endpoint = AnyArguments
  /\ UNCHANGED <<sched, env, clock, todo, planner>>
  /\ LET v == getCalendarEvents_validateStructure(r) IN
     IF v.status # 0 THEN Answer(p, r, NoLoc, v)
     ELSE Await(p, r, [key |-> <<>>, toolCallId |-> r.toolCallList[1].id])

\* the version that does not read the arguments, from the answer of the
\* calendar service, or its failure, to the answer
GetCalendarEventsAnyArgumentsAnswer(p) ==
  /\ pc[p] = "read"
  /\ req[p].endpoint = AnyArguments
  /\ UNCHANGED <<sched, env, clock, todo, planner>>
  /\ \E out \in CalendarOutcomes :
       IF out.ok
         THEN Respond(p, Results(loc[p].toolCallId,
                                 getCalendarEvents_result(out.data)))
         ELSE Respond(p, InternalError(out.message))

-----------------------------------------------------------------------------
(* saveJournalEntry (journalEndpoints.ts, first half), a callable function: *)
(* what it returns is the body of a 200 answer                             *)

\* const { apiKey, ...dataToProcess } = request.data
DataToProcess(data) == [f \in DOMAIN data \ {"apiKey"} |-> data[f]]

\* request.data?.apiKey
saveJournalEntry_apiKey(r) == IF r.hasData THEN Get(r.data, "apiKey") ELSE Undefined

saveJournalEntry_return(r) ==
  IF ~Authorized(saveJournalEntry_apiKey(r), env.JOURNAL_API_KEY)
    THEN [success |-> "false",
          error |-> "Unauthorized: Invalid or missing API key", code |-> 401]
    ELSE [success |-> "true", message |-> "Journal entry saved successfully",
          timestamp |-> clock, receivedData |-> DataToProcess(r.data)]

SaveJournalEntry(p, r) ==
  /\ pc[p] = "idle"
  /\ r.endpoint = "saveJournalEntry"
  /\ UNCHANGED <<sched, env, clock, todo, planner>>
  /\ Answer(p, r, NoLoc, [status |-> 200, body |-> saveJournalEntry_return(r)])

-----------------------------------------------------------------------------
(* SpecHttp: every endpoint, under every configuration of the secrets, with *)
(* requests of every credential and shape, one after another               *)

\* the endpoints that are called with a tool-call envelope
ToolCallEndpoints ==
  {"createToDoList", "getTodayToDoList", "updateToDoItems", "getTodaysPlanner",
   "updateTasks", "updateTaskCompletion", "updateMeals", "getCalendarEvents",
   AnyArguments}

\* the secret an endpoint compares the credential with: its module's
\* `const API_KEY = process.env.… || ""`
ApiKeyOf(endpoint) ==
  IF endpoint \in {"updateTasks", "getCalendarEvents", AnyArguments}
    THEN env.VAPI_API_KEY
    ELSE env.JOURNAL_API_KEY

\* the checks an endpoint makes before it reads its arguments' document
Validate(endpoint, r) ==
  CASE endpoint = "createToDoList" -> createToDoList_validate(r)
    [] endpoint = "getTodayToDoList" -> getTodayToDoList_validate(r)
    [] endpoint = "updateToDoItems" -> updateToDoItems_validate(r)
    [] endpoint = "getTodaysPlanner" -> getTodaysPlanner_validate(r)
    [] endpoint = "updateTasks" -> updateTasks_validate(r)
    [] endpoint = "updateTaskCompletion" -> updateTaskCompletion_validate(r)
    [] endpoint = "updateMeals" -> updateMeals_validate(r)
    [] endpoint = "getCalendarEvents" -> getCalendarEvents_validate(r)
    [] endpoint = AnyArguments -> getCalendarEvents_validateStructure(r)

\* the value of the apikey header: a secret, another string, the empty
\* string, or no header
Credentials == {"k1", "k2", "wrong", "", Undefined}

\* arguments an endpoint accepts
GoodArgs(endpoint) ==
  CASE endpoint = "createToDoList" ->
         [user_id |-> "u1", to_do_list |-> Arr(<<"A">>)]
    [] endpoint = "updateToDoItems" ->
         [user_id |-> "u1",
          items |-> Arr(<<[id |-> "i1", isComplete |-> "true"]>>)]
    [] endpoint = "updateTasks" ->
         [user_id |-> "u1", tasks |-> Arr(<<Task("t1", "A", "false")>>)]
    [] endpoint = "updateTaskCompletion" ->
         [user_id |-> "u1", task_id |-> "t1", is_complete |-> "true",
          tool_id |-> "tool"]
    [] endpoint = "updateMeals" ->
         [user_id |-> "u1", tool_id |-> "tool",
          meals |-> [breakfast |-> "eggs", lunch |-> "", snacks |-> "",
                     dinner |-> ""]]
    [] OTHER -> [user_id |-> "u1"]

\* arguments without the fields an endpoint requires
BadArgs == [note |-> "x"]

\* the shapes of a request: well-formed, without its fields, without a
\* body, with an empty tool-call list, without arguments, and not a POST
HttpShapes(endpoint, apikey, id) ==
  {Post(endpoint, apikey, id, GoodArgs(endpoint)),
   Post(endpoint, apikey, id, BadArgs),
   [Post(endpoint, apikey, id, BadArgs) EXCEPT !.hasBody = FALSE,
                                               !.toolCallList = <<>>],
   [Post(endpoint, apikey, id, BadArgs) EXCEPT !.toolCallList = <<>>],
   [Post(endpoint, apikey, id, BadArgs) EXCEPT !.toolCallList = <<[id |-> id]>>],
   [Post(endpoint, apikey, id, GoodArgs(endpoint)) EXCEPT !.method = "GET"]}

\* calls of saveJournalEntry: with and without data, with each credential
SaveJournalRequests ==
  {[endpoint |-> "saveJournalEntry", hasData |-> FALSE]}
  \cup {[endpoint |-> "saveJournalEntry", hasData |-> TRUE,
         data |-> [entry |-> "today"]]}
  \cup {[endpoint |-> "saveJournalEntry", hasData |-> TRUE,
         data |-> [entry |-> "today", apiKey |-> k]]
          : k \in Credentials \ {Undefined}}

HttpRequests(id) ==
  UNION {HttpShapes(endpoint, apikey, id)
           : endpoint \in ToolCallEndpoints, apikey \in Credentials}
  \cup {Post("updateToDoItems", apikey, id,
             [user_id |-> "u1", items |-> Arr(<<[id |-> "i1"]>>)])
          : apikey \in {"k1"}}
  \cup SaveJournalRequests

InitHttp ==
  /\ env \in EnvConfigs
  /\ clock = 0
  /\ todo \in InitialToDo
  /\ planner = <<>>
  /\ IdleSlots
  /\ NoScheduling

NextHttp ==
  \/ \E r \in HttpRequests(CallId(1)) : CreateToDoListStart(1, r)
  \/ CreateToDoListWrite(1)
  \/ CreateToDoListAnswer(1)
  \/ \E r \in HttpRequests(CallId(1)) : UpdateToDoItemsStart(1, r)
  \/ UpdateToDoItemsWrite(1)
  \/ UpdateToDoItemsAnswer(1)
  \/ \E r \in HttpRequests(CallId(1)) : GetTodayToDoListStart(1, r)
  \/ GetTodayToDoListAnswer(1)
  \/ \E r \in HttpRequests(CallId(1)) : UpdateTasksStart(1, r)
  \/ UpdateTasksWrite(1)
  \/ UpdateTasksAnswer(1)
  \/ \E r \in HttpRequests(CallId(1)) : UpdateMealsStart(1, r)
  \/ UpdateMealsWrite(1)
  \/ UpdateMealsAnswer(1)
  \/ \E r \in HttpRequests(CallId(1)) : UpdateTaskCompletionStart(1, r)
  \/ UpdateTaskCompletionWrite(1)
  \/ UpdateTaskCompletionAnswer(1)
  \/ \E r \in HttpRequests(CallId(1)) : GetTodaysPlannerStart(1, r)
  \/ GetTodaysPlannerAnswer(1)
  \/ \E r \in HttpRequests(CallId(1)) : GetCalendarEventsStart(1, r)
  \/ GetCalendarEventsAnswer(1)
  \/ \E r \in HttpRequests(CallId(1)) : GetCalendarEventsAnyArgumentsStart(1, r)
  \/ GetCalendarEventsAnyArgumentsAnswer(1)
  \/ \E r \in HttpRequests(CallId(1)) : SaveJournalEntry(1, r)
  \/ Reset

SpecHttp == InitHttp /\ [][NextHttp]_vars

-----------------------------------------------------------------------------
(* parseTimeString (unnamed/part_004).  A time string is the sequence of   *)
(* its characters; an instant is a number of milliseconds of local time,   *)
(* day 0 starting at 0; a Date is DateOf(instant) and null is Null.        *)

MsPerMinute == 60 * 1000
MsPerHour == 60 * MsPerMinute
MsPerDay == 24 * MsPerHour

Null == [isNull |-> TRUE]

DateOf(t) == [isNull |-> FALSE, time |-> t]

\* \d
Digits == {"0", "1", "2", "3", "4", "5", "6", "7", "8", "9"}

\* \s, as far as the inputs of the model go
Whitespace == {" ", "\t", "\n"}

DigitValue(c) ==
  CASE c = "0" -> 0 [] c = "1" -> 1 [] c = "2" -> 2 [] c = "3" -> 3
    [] c = "4" -> 4 [] c = "5" -> 5 [] c = "6" -> 6 [] c = "7" -> 7
    [] c = "8" -> 8 [] c = "9" -> 9

\* parseInt(digits, 10) of a non-empty sequence of digits
RECURSIVE ParseInt(_)
ParseInt(ds) ==
  IF Len(ds) = 1 THEN DigitValue(ds[1])
  ELSE 10 * ParseInt(SubSeq(ds, 1, Len(ds) - 1)) + DigitValue(ds[Len(ds)])

\* toUpperCase() of a character of a meridiem
ToUpperCase(c) ==
  CASE c = "a" -> "A" [] c = "p" -> "P" [] c = "m" -> "M" [] OTHER -> c

\* timeString.match(/^(\d{1,2}):(\d{2})\s*(AM|PM)$/i): the three groups, or
\* no match.  The hour group takes the leading digits, two at most; what
\* follows the minutes is whitespace up to the two letters that end the
\* string.
TimeRegexMatch(s) ==
  LET n == Len(s)
      h == IF n >= 2 /\ s[1] \in Digits /\ s[2] \in Digits THEN 2
           ELSE IF n >= 1 /\ s[1] \in Digits THEN 1
           ELSE 0
  IN IF /\ h > 0
        /\ n >= h + 5
        /\ s[h + 1] = ":"
        /\ s[h + 2] \in Digits
        /\ s[h + 3] \in Digits
        /\ \A i \in (h + 4)..(n - 2) : s[i] \in Whitespace
        /\ ToUpperCase(s[n - 1]) \in {"A", "P"}
        /\ ToUpperCase(s[n]) = "M"
       THEN [matched |-> TRUE,
             hours |-> SubSeq(s, 1, h),
             minutes |-> SubSeq(s, h + 2, h + 3),
             period |-> <<ToUpperCase(s[n - 1]), ToUpperCase(s[n])>>]
       ELSE [matched |-> FALSE]

To24Hour_NoMidnight(hours, period) ==
  IF period = <<"P", "M">> /\ hours < 12 THEN hours + 12
  ELSE hours

\* the conversion to the 24-hour clock
To24Hour(hours, period) ==
  IF period = <<"P", "M">> /\ hours < 12 THEN hours + 12
  ELSE IF period = <<"A", "M">> /\ hours = 12 THEN 0
  ELSE hours

\* date.setHours(hours, minutes, 0, 0) on a Date of the instant t: the day
\* of t at that time, which runs into the next days when hours or minutes
\* are beyond the clock
SetHours(t, hours, minutes) ==
  (t \div MsPerDay) * MsPerDay + hours * MsPerHour + minutes * MsPerMinute

NotBefore_Inclusive(date, now) == IF date <= now THEN date + MsPerDay ELSE date

\* if (date < now) date.setDate(date.getDate() + 1)
NotBefore(date, now) == IF date < now THEN date + MsPerDay ELSE date

\* parseTimeString(timeString), where `created` and `now` are the instants
\* of its two `new Date()`
parseTimeString(s, created, now) ==
  LET match == TimeRegexMatch(s) IN
  IF ~match.matched THEN Null
  ELSE LET hours == To24Hour(ParseInt(match.hours), match.period)
           minutes == ParseInt(match.minutes)
       IN DateOf(NotBefore(SetHours(created, hours, minutes), now))


\* the instant of day d at h:m:s.ms
Instant(d, h, m, s, ms) ==
  d * MsPerDay + h * MsPerHour + m * MsPerMinute + s * 1000 + ms

\* what the clock tells in the runs: midnight, the last millisecond of a
\* day, the first of the next day, and instants at, just before and just
\* after the times the strings name
Instants ==
  {Instant(1, 0, 0, 0, 0), Instant(1, 0, 30, 0, 0), Instant(1, 1, 0, 0, 0),
   Instant(1, 7, 59, 59, 999), Instant(1, 8, 0, 0, 0),
   Instant(1, 8, 0, 0, 1), Instant(1, 11, 59, 0, 0),
   Instant(1, 12, 0, 0, 0), Instant(1, 12, 30, 30, 500),
   Instant(1, 13, 0, 0, 0), Instant(1, 20, 0, 0, 0),
   Instant(1, 20, 0, 0, 1), Instant(1, 23, 59, 0, 0),
   Instant(1, 23, 59, 59, 999), Instant(2, 0, 0, 0, 0),
   Instant(2, 0, 0, 0, 1), Instant(2, 8, 0, 0, 0)}

\* what a `new Date()` may give after the clock has told t: t again, or a
\* later instant
LaterInstants(t) == {u \in Instants : u >= t}

HourStrings ==
  {<<"0">>, <<"1">>, <<"8">>, <<"0", "8">>, <<"1", "1">>, <<"1", "2">>,
   <<"1", "3">>, <<"2", "5">>}

MinuteStrings == {<<"0", "0">>, <<"3", "0">>, <<"5", "9">>, <<"7", "5">>}

Gaps == {<<>>, <<" ">>, <<" ", "\t">>}

Meridiems == {<<"A", "M">>, <<"P", "M">>, <<"a", "m">>, <<"p", "M">>}

\* strings that are not of the form hours:minutes meridiem
MalformedStrings ==
  {<<>>, <<"8", ":", "0", "0">>, <<"n", "o", "o", "n">>,
   <<"8", ":", "0", " ", "A", "M">>, <<"8", "0", "0", " ", "A", "M">>,
   <<"1", "2", "3", ":", "0", "0", " ", "A", "M">>,
   <<" ", "8", ":", "0", "0", " ", "A", "M">>,
   <<"8", ":", "0", "0", " ", "A", "M", " ">>,
   <<"8", ":", "0", "0", " ", "A">>, <<"8", ":", "0", "0", " ", "X", "M">>,
   <<"A", "M">>}

TimeStrings ==
  {h \o <<":">> \o m \o g \o p :
     h \in HourStrings, m \in MinuteStrings, g \in Gaps, p \in Meridiems}
  \cup MalformedStrings

Quiet ==
  /\ env = DeployedEnv
  /\ clock = 0
  /\ todo = <<>>
  /\ planner = <<>>
  /\ IdleSlots
  /\ users = <<>>
  /\ calls = <<>>

InitTime ==
  /\ Quiet
  /\ timeString \in TimeStrings
  /\ wallClock \in Instants
  /\ parsed = [returned |-> FALSE]

\* one call of parseTimeString(timeString): its first `new Date()` gives
\* wallClock and its second the same or a later instant, which the clock
\* tells from then on
ParseTimeString ==
  /\ ~parsed.returned
  /\ \E now \in LaterInstants(wallClock) :
       /\ parsed' = [returned |-> TRUE,
                     created |-> wallClock,
                     now |-> now,
                     value |-> parseTimeString(timeString, wallClock, now)]
       /\ wallClock' = now
  /\ UNCHANGED <<timeString, users, calls, env, clock, todo, planner, pc, req,
                 loc, resp>>

NextTime == ParseTimeString

SpecTime == InitTime /\ [][NextTime]_vars

-----------------------------------------------------------------------------
(* The call scheduler: the triggers on users/{userId} (userDataTriggers)   *)
(* and scheduleVapiCall (services/vapi).  users[u] is the profile document *)
(* of the user u: whether it exists, its data, and the number of writes    *)
(* so far.  A write fires a trigger: the event takes a slot, pc "event",   *)
(* and the handler runs from there, one action from await to await:        *)
(* onUserUpdated is at pc "morning" while it awaits the scheduleVapiCall   *)
(* of the morning call and at "evening" while it awaits the one of the     *)
(* evening call, and other invocations run meanwhile.  calls is the        *)
(* sequence of the payloads submitted to the call service, in the order of *)
(* their submission.  wallClock is what the clock last told; every         *)
(* `new Date()` gives that instant or a later one.  An instant stands for  *)
(* its toISOString().                                                      *)

MaxUpdates == 2

UserIds == {"u1"}

EightAM == <<"8", ":", "0", "0", " ", "A", "M">>

HalfPastNineAM == <<"9", ":", "3", "0", " ", "A", "M">>

Noon == <<"n", "o", "o", "n">>

EightPM == <<"8", ":", "0", "0", " ", "P", "M">>

\* a profile with a phone number, a name and both call times
Ann ==
  [phoneNumber |-> "+15550100", name |-> "Ann", morningCallTime |-> EightAM,
   eveningCallTime |-> EightPM]

\* the document d without its field f
Without(d, f) == [g \in DOMAIN d \ {f} |-> d[g]]

\* the profile documents of the runs: another morning call time, no evening
\* call time, another phone number, an empty and an unparseable morning
\* call time, no phone number, an empty name
Profiles ==
  {Ann,
   [Ann EXCEPT !.morningCallTime = HalfPastNineAM],
   Without([Ann EXCEPT !.morningCallTime = HalfPastNineAM], "eveningCallTime"),
   [Ann EXCEPT !.phoneNumber = "+15550111"],
   [Ann EXCEPT !.morningCallTime = <<>>],
   [Ann EXCEPT !.morningCallTime = Noon],
   Without(Ann, "phoneNumber"),
   [Ann EXCEPT !.name = ""]}

\* what the clock tells in the runs of the scheduler
CallInstants == {Instant(1, 8, 0, 0, 0), Instant(1, 8, 0, 0, 1)}

\* what a `new Date()` may give after the clock has told t
ClockReads(t) == {u \in CallInstants : u >= t}

CallTimeChanged_AnyWrite(beforeData, afterData, f) ==
  /\ f \in DOMAIN afterData
  /\ afterData[f] # <<>>

\* beforeData?.f !== afterData?.f && afterData?.f, for a call-time field f
CallTimeChanged(beforeData, afterData, f) ==
  /\ f \in DOMAIN afterData
  /\ afterData[f] # <<>>
  /\ (f \notin DOMAIN beforeData \/ beforeData[f] # afterData[f])

\* callType.charAt(0).toUpperCase() + callType.slice(1) + " Call"
CallName(callType) ==
  IF callType = "morning" THEN "Morning Call" ELSE "Evening Call"

\* the payload of scheduleVapiCall in services/vapi
Payload(userName, phoneNumber, scheduledTime, callType) ==
  [type |-> "outboundPhoneCall",
   name |-> CallName(callType),
   phoneNumberId |-> Get(env, "VAPI_PHONE_NUMBER_ID"),
   assistantId |-> Get(env, "VAPI_ASSISTANT_ID"),
   customer |-> [number |-> phoneNumber, name |-> userName],
   assistantOverrides |-> [backgroundSound |-> "off"],
   schedulePlan |-> [earliestAt |-> scheduledTime,
                     latestAt |-> scheduledTime + 5 * 60000]]

\* the payload of the scheduleVapiCall that posts with axios; a template
\* string is the sequence of its parts
PayloadAxios(userId, phoneNumber, scheduledTime, callType) ==
  [type |-> "outboundPhoneCall",
   name |-> <<CallName(callType), " for User ", userId>>,
   assistantId |-> Get(env, "VAPI_ASSISTANT_ID"),
   customer |-> [number |-> phoneNumber, name |-> <<"User ", userId>>],
   schedulePlan |-> [earliestAt |-> scheduledTime,
                     latestAt |-> scheduledTime + 5 * 60000]]

\* "1970-01-02T08:00:00.000Z"
IsoEightAM ==
  <<"1", "9", "7", "0", "-", "0", "1", "-", "0", "2", "T", "0", "8", ":",
    "0", "0", ":", "0", "0", ".", "0", "0", "0", "Z">>

\* new Date(callTime) for the strings of the runs: a date-time of January
\* 1970 in the form of toISOString() is its instant, day 0 being the first
\* of the month; a time of day alone, a word and the empty string are an
\* Invalid Date, whose getTime() is NaN: Null here
DateFromString(s) ==
  IF /\ Len(s) = 24
     /\ SubSeq(s, 1, 8) = <<"1", "9", "7", "0", "-", "0", "1", "-">>
     /\ \A i \in {9, 10, 12, 13, 15, 16, 18, 19, 21, 22, 23} : s[i] \in Digits
     /\ s[11] = "T" /\ s[14] = ":" /\ s[17] = ":" /\ s[20] = "." /\ s[24] = "Z"
     /\ ParseInt(SubSeq(s, 9, 10)) \in 1..31
     /\ ParseInt(SubSeq(s, 12, 13)) < 24
     /\ ParseInt(SubSeq(s, 15, 16)) < 60
     /\ ParseInt(SubSeq(s, 18, 19)) < 60
    THEN DateOf(Instant(ParseInt(SubSeq(s, 9, 10)) - 1,
                        ParseInt(SubSeq(s, 12, 13)),
                        ParseInt(SubSeq(s, 15, 16)),
                        ParseInt(SubSeq(s, 18, 19)),
                        ParseInt(SubSeq(s, 21, 23))))
    ELSE Null

\* whether scheduleVapiCall reads the clock: parseTimeString does, twice,
\* once the string has matched
ReadsClock(build, callTime) ==
  /\ env.VAPI_API_KEY # ""
  /\ build \in {"sdk", "axios"}
  /\ TimeRegexMatch(callTime).matched

\* scheduleVapiCall(userId, userName, phoneNumber, callTime, callType) of
\* the build given, from its start to its `await` of the submission or to
\* its return, where created and now are the two clock reads of
\* parseTimeString: the payload it submits, or none when the key is unset
\* or the time is not valid
scheduleVapiCall(build, userId, userName, phoneNumber, callTime, callType, created, now) ==
  LET scheduledTime == IF build = "axiosDate" THEN DateFromString(callTime)
                       ELSE parseTimeString(callTime, created, now)
  IN IF env.VAPI_API_KEY = "" THEN [submitted |-> FALSE]
     ELSE IF scheduledTime.isNull THEN [submitted |-> FALSE]
     ELSE [submitted |-> TRUE,
           payload |-> IF build = "sdk"
                         THEN Payload(userName, phoneNumber,
                                      scheduledTime.time, callType)
                         ELSE PayloadAxios(userId, phoneNumber,
                                           scheduledTime.time, callType)]

\* !phoneNumber || !userName in services/vapi's build, !phoneNumber in the
\* builds with axios
CannotSchedule(build, afterData) ==
  \/ Falsy(Get(afterData, "phoneNumber"))
  \/ build = "sdk" /\ Falsy(Get(afterData, "name"))

\* the document field of the call of a kind
FieldOf(callType) ==
  IF callType = "morning" THEN "morningCallTime" ELSE "eveningCallTime"

\* the event of a write of users/{userId}, for the trigger given
Event(trigger, u, beforeData, afterData) ==
  [endpoint |-> trigger, userId |-> u, before |-> beforeData,
   after |-> afterData]

\* the locals of an invocation of a trigger: the payloads it has submitted,
\* whether it awaits a submission ("create") or a scheduleVapiCall that has
\* returned ("return"), and what its morning submission came to.  The
\* sources hold four versions of the triggers, and build names the one that
\* runs: "sdk" schedules through services/vapi and the Vapi SDK
\* (unnamed/part_004), "axios" posts with axios and parses with
\* parseTimeString (unnamed/part_003), "axiosDate" posts with axios and
\* parses with `new Date(callTime)` (unnamed/part_002), and "logging" only
\* logs (unnamed/part_002, second half)
TriggerLoc(build) ==
  [key |-> <<>>, build |-> build, submitted |-> <<>>, awaiting |-> "none",
   morning |-> "none"]

\* slot p is the free slot of the lowest number
FreeSlot(p) == pc[p] = "idle" /\ \A q \in Procs : q < p => pc[q] # "idle"

\* a write fires the trigger: its event waits in the free slot
Fire(event) ==
  \E p \in Procs :
    /\ FreeSlot(p)
    /\ pc' = [pc EXCEPT ![p] = "event"]
    /\ req' = [req EXCEPT ![p] = event]
    /\ UNCHANGED <<loc, resp>>

\* a trigger that lets the failure of a submission through
onUserUpdated_return_Uncaught(threw) == IF threw THEN "threw" ELSE "null"

\* how onUserUpdated completes: a failure thrown by scheduleVapiCall is
\* caught and logged, and the trigger returns null
onUserUpdated_return(threw) == IF threw THEN "null" ELSE "null"

\* the invocation in slot p returns, with the locals l
Return(p, l, threw) ==
  /\ pc' = [pc EXCEPT ![p] = "done"]
  /\ loc' = [loc EXCEPT ![p] = [l EXCEPT !.awaiting = "none"]]
  /\ resp' = [resp EXCEPT ![p] = [status |-> 0,
                                  returned |-> onUserUpdated_return(threw)]]
  /\ UNCHANGED <<req, calls, wallClock>>

\* the invocation in slot p, with the locals l, calls scheduleVapiCall for
\* the call of the kind given and awaits it: the clock is read twice when
\* the time string is parsed, and the payload is submitted
Schedule(p, l, callType) ==
  LET afterData == req[p].after
      callTime == afterData[FieldOf(callType)]
      reads == ReadsClock(l.build, callTime)
  IN \E created \in ClockReads(wallClock) :
       \E now \in ClockReads(created) :
         LET call == scheduleVapiCall(l.build, req[p].userId,
                                      Get(afterData, "name"),
                                      afterData.phoneNumber, callTime, callType,
                                      created, now)
         IN /\ reads \/ (created = wallClock /\ now = wallClock)
            /\ wallClock' = IF reads THEN now ELSE wallClock
            /\ calls' = IF call.submitted THEN Append(calls, call.payload)
                        ELSE calls
            /\ pc' = [pc EXCEPT ![p] = callType]
            /\ loc' = [loc EXCEPT ![p] =
                         [l EXCEPT !.awaiting = IF call.submitted THEN "create"
                                                ELSE "return",
                                   !.submitted = IF call.submitted
                                                   THEN Append(@, call.payload)
                                                   ELSE @]]
            /\ UNCHANGED <<req, resp>>

\* onUserUpdated from the evening call on: scheduled when eveningCallTime
\* has changed
ScheduleEvening(p, l) ==
  IF CallTimeChanged(req[p].before, req[p].after, "eveningCallTime")
    THEN Schedule(p, l, "evening")
    ELSE Return(p, l, FALSE)

\* onUserUpdated of the build given, from its start to its first await or
\* to its return: nothing is scheduled without a phone number, or a name
onUserUpdated_start(p, build) ==
  IF build = "logging" \/ CannotSchedule(build, req[p].after)
    THEN Return(p, TriggerLoc(build), FALSE)
  ELSE IF CallTimeChanged(req[p].before, req[p].after, "morningCallTime")
    THEN Schedule(p, TriggerLoc(build), "morning")
  ELSE ScheduleEvening(p, TriggerLoc(build))

\* onUserUpdated from the end of `await scheduleVapiCall(…, "morning")` to
\* its next await or to its return: a failed submission is thrown, caught
\* and logged, and the evening call is not scheduled
onUserUpdated_morning(p) ==
  IF loc[p].awaiting = "create"
    THEN \E outcome \in {"created", "failed"} :
           IF outcome = "failed"
             THEN Return(p, [loc[p] EXCEPT !.morning = outcome], TRUE)
             ELSE ScheduleEvening(p, [loc[p] EXCEPT !.morning = outcome])
    ELSE ScheduleEvening(p, loc[p])

\* onUserUpdated from the end of `await scheduleVapiCall(…, "evening")` to
\* its return
onUserUpdated_evening(p) ==
  IF loc[p].awaiting = "create"
    THEN \E outcome \in {"created", "failed"} :
           Return(p, loc[p], outcome = "failed")
    ELSE Return(p, loc[p], FALSE)

\* the profile of the user u is updated to afterData: onDocumentUpdated
\* fires
UpdateUser(u, afterData) ==
  /\ users[u].exists
  /\ users[u].updates < MaxUpdates
  /\ Fire(Event("onUserUpdated", u, users[u].data, afterData))
  /\ users' = [users EXCEPT ![u] = [exists |-> TRUE, data |-> afterData,
                                    updates |-> users[u].updates + 1]]
  /\ UNCHANGED <<calls, wallClock, timeString, parsed, env, clock, todo,
                 planner>>

\* onUserUpdated of userDataTriggers, which schedules through services/vapi:
\* from the event to the first await, or to the return
OnUserUpdatedStart(p) ==
  /\ pc[p] = "event"
  /\ req[p].endpoint = "onUserUpdated"
  /\ onUserUpdated_start(p, "sdk")
  /\ UNCHANGED <<users, timeString, parsed, env, clock, todo, planner>>

\* from the await of the morning call on
OnUserUpdatedMorning(p) ==
  /\ pc[p] = "morning"
  /\ loc[p].build \in {"sdk"}
  /\ onUserUpdated_morning(p)
  /\ UNCHANGED <<users, timeString, parsed, env, clock, todo, planner>>

\* from the await of the evening call on
OnUserUpdatedEvening(p) ==
  /\ pc[p] = "evening"
  /\ loc[p].build \in {"sdk"}
  /\ onUserUpdated_evening(p)
  /\ UNCHANGED <<users, timeString, parsed, env, clock, todo, planner>>

\* onUserUpdated of the version with axios and parseTimeString
OnUserUpdatedAxiosStart(p) ==
  /\ pc[p] = "event"
  /\ req[p].endpoint = "onUserUpdated"
  /\ onUserUpdated_start(p, "axios")
  /\ UNCHANGED <<users, timeString, parsed, env, clock, todo, planner>>

\* onUserUpdated of the version with axios and new Date(callTime)
OnUserUpdatedAxiosDateStart(p) ==
  /\ pc[p] = "event"
  /\ req[p].endpoint = "onUserUpdated"
  /\ onUserUpdated_start(p, "axiosDate")
  /\ UNCHANGED <<users, timeString, parsed, env, clock, todo, planner>>

\* the two versions with axios have the same text from the first await on
OnUserUpdatedAxiosMorning(p) ==
  /\ pc[p] = "morning"
  /\ loc[p].build \in {"axios", "axiosDate"}
  /\ onUserUpdated_morning(p)
  /\ UNCHANGED <<users, timeString, parsed, env, clock, todo, planner>>

\* from the await of the evening call on, with axios
OnUserUpdatedAxiosEvening(p) ==
  /\ pc[p] = "evening"
  /\ loc[p].build \in {"axios", "axiosDate"}
  /\ onUserUpdated_evening(p)
  /\ UNCHANGED <<users, timeString, parsed, env, clock, todo, planner>>

\* onUserUpdated of the version that only logs
OnUserUpdatedLogging(p) ==
  /\ pc[p] = "event"
  /\ req[p].endpoint = "onUserUpdated"
  /\ onUserUpdated_start(p, "logging")
  /\ UNCHANGED <<users, timeString, parsed, env, clock, todo, planner>>

\* a creation that schedules the calls of the new profile
onNewUser_requests_Scheduling(userData, now) ==
  IF "morningCallTime" \in DOMAIN userData
       /\ TimeRegexMatch(userData.morningCallTime).matched
    THEN <<Payload(Get(userData, "name"), Get(userData, "phoneNumber"),
                   parseTimeString(userData.morningCallTime, now, now).time,
                   "morning")>>
    ELSE <<>>

\* the payloads onNewUser submits for the new profile userData: none, it
\* only logs
onNewUser_requests(userData, now) == <<>>

\* the profile of the user u is created as userData: onDocumentCreated
\* fires
CreateUser(u, userData) ==
  /\ ~users[u].exists
  /\ users[u].updates < MaxUpdates
  /\ Fire(Event("onNewUser", u, <<>>, userData))
  /\ users' = [users EXCEPT ![u] = [exists |-> TRUE, data |-> userData,
                                    updates |-> users[u].updates + 1]]
  /\ UNCHANGED <<calls, wallClock, timeString, parsed, env, clock, todo,
                 planner>>

\* onNewUser: it logs and returns null
OnNewUser(p) ==
  /\ pc[p] = "event"
  /\ req[p].endpoint = "onNewUser"
  /\ pc' = [pc EXCEPT ![p] = "done"]
  /\ loc' = [loc EXCEPT ![p] = TriggerLoc("sdk")]
  /\ resp' = [resp EXCEPT ![p] = [status |-> 0, returned |-> "null"]]
  /\ calls' = calls \o onNewUser_requests(req[p].after, wallClock)
  /\ UNCHANGED <<req, users, wallClock, timeString, parsed, env, clock, todo,
                 planner>>

\* the profile of the user u is deleted: onDocumentDeleted fires
DeleteUser(u) ==
  /\ users[u].exists
  /\ users[u].updates < MaxUpdates
  /\ Fire(Event("onUserDeleted", u, users[u].data, <<>>))
  /\ users' = [users EXCEPT ![u] = [exists |-> FALSE, data |-> <<>>,
                                    updates |-> users[u].updates + 1]]
  /\ UNCHANGED <<calls, wallClock, timeString, parsed, env, clock, todo,
                 planner>>

\* onUserDeleted: it logs and returns null
OnUserDeleted(p) ==
  /\ pc[p] = "event"
  /\ req[p].endpoint = "onUserDeleted"
  /\ pc' = [pc EXCEPT ![p] = "done"]
  /\ loc' = [loc EXCEPT ![p] = TriggerLoc("sdk")]
  /\ resp' = [resp EXCEPT ![p] = [status |-> 0, returned |-> "null"]]
  /\ UNCHANGED <<req, users, calls, wallClock, timeString, parsed, env, clock,
                 todo, planner>>

InitCalls ==
  /\ env \in {DeployedEnv, [JOURNAL_API_KEY |-> "k1", VAPI_API_KEY |-> ""]}
  /\ clock = 0
  /\ todo = <<>>
  /\ planner = <<>>
  /\ IdleSlots
  /\ wallClock = Instant(1, 8, 0, 0, 0)
  /\ timeString = <<>>
  /\ parsed = [returned |-> FALSE]
  /\ users \in [UserIds -> {[exists |-> TRUE, data |-> d, updates |-> 0] :
                               d \in Profiles}
                            \cup {[exists |-> FALSE, data |-> <<>>,
                                   updates |-> 0]}]
  /\ calls = <<>>

NextCalls ==
  \/ \E u \in UserIds, afterData \in Profiles : UpdateUser(u, afterData)
  \/ \E p \in Procs : OnUserUpdatedStart(p)
  \/ \E p \in Procs : OnUserUpdatedMorning(p)
  \/ \E p \in Procs : OnUserUpdatedEvening(p)
  \/ \E u \in UserIds, userData \in Profiles : CreateUser(u, userData)
  \/ \E p \in Procs : OnNewUser(p)
  \/ \E u \in UserIds : DeleteUser(u)
  \/ \E p \in Procs : OnUserDeleted(p)
  \/ Reset

SpecCalls == InitCalls /\ [][NextCalls]_vars

\* the earlier versions of the triggers, on profiles whose morning call
\* time may be a date-time
EarlierProfiles ==
  {Ann,
   [Ann EXCEPT !.morningCallTime = IsoEightAM],
   Without(Ann, "eveningCallTime"),
   [Ann EXCEPT !.name = ""],
   Without(Ann, "phoneNumber")}

InitEarlierCalls ==
  /\ env \in {DeployedEnv, [JOURNAL_API_KEY |-> "k1", VAPI_API_KEY |-> ""]}
  /\ clock = 0
  /\ todo = <<>>
  /\ planner = <<>>
  /\ IdleSlots
  /\ wallClock = Instant(1, 8, 0, 0, 0)
  /\ timeString = <<>>
  /\ parsed = [returned |-> FALSE]
  /\ users \in [UserIds -> {[exists |-> TRUE, data |-> d, updates |-> 0] :
                               d \in EarlierProfiles}]
  /\ calls = <<>>

NextEarlierCalls ==
  \/ \E u \in UserIds, afterData \in EarlierProfiles : UpdateUser(u, afterData)
  \/ \E p \in Procs : OnUserUpdatedAxiosStart(p)
  \/ \E p \in Procs : OnUserUpdatedAxiosDateStart(p)
  \/ \E p \in Procs : OnUserUpdatedAxiosMorning(p)
  \/ \E p \in Procs : OnUserUpdatedAxiosEvening(p)
  \/ \E p \in Procs : OnUserUpdatedLogging(p)
  \/ Reset

SpecEarlierCalls == InitEarlierCalls /\ [][NextEarlierCalls]_vars

-----------------------------------------------------------------------------
(* Properties *)

Texts == {"A", "B"}

MealTypes == {"breakfast", "lunch", "snacks", "dinner"}

\* the number of items of a list that carry the text t
CountText(items, t) == Cardinality({i \in 1..Len(items) : items[i].text = t})

\* slot p holds an answered request to `endpoint` that was answered 200
Answered200(p, endpoint) ==
  /\ pc[p] = "done"
  /\ req[p].endpoint = endpoint
  /\ resp[p].status = 200

\* p and q are the only requests since the slots were last free
OnlyRequests(p, q) == \A o \in Procs \ {p, q} : pc[o] = "idle"

\* C1: when two createToDoList requests for the same user and day have both
\* been answered 200, whatever the order of their reads and writes, the
\* stored list holds every item of both requests.
C1_ConcurrentCreatesKeepAllItems ==
  \A p, q \in Procs :
    ( /\ p # q
      /\ Answered200(p, "createToDoList")
      /\ Answered200(q, "createToDoList")
      /\ loc[p].key = loc[q].key
      /\ OnlyRequests(p, q) )
    => \A t \in Texts :
         CountText(todo[loc[p].key].items, t)
           >= CountText(loc[p].newTodoItems, t) + CountText(loc[q].newTodoItems, t)

\* C2: when an updateTasks and an updateMeals request for the same user have
\* both been answered 200 on a day whose planner did not exist when the
\* first of them read it, the planner holds the tasks of the one and the
\* meals of the other.
C2_ConcurrentCreatePathsKeepBothFields ==
  \A p, q \in Procs :
    ( /\ p # q
      /\ Answered200(p, "updateTasks")
      /\ Answered200(q, "updateMeals")
      /\ loc[p].key = loc[q].key
      /\ (~loc[p].snap.exists \/ ~loc[q].snap.exists)
      /\ OnlyRequests(p, q) )
    => /\ planner[loc[p].key].tasks = loc[p].normalizedTasks
       /\ planner[loc[p].key].meals = loc[q].meals

\* C3: when two updateTaskCompletion requests for the same user and day
\* that name different tasks have both been answered 200, each named task
\* has the isComplete value its request asked for.
C3_ConcurrentCompletionsKeepBoth ==
  \A p, q \in Procs :
    ( /\ p # q
      /\ Answered200(p, "updateTaskCompletion")
      /\ Answered200(q, "updateTaskCompletion")
      /\ loc[p].key = loc[q].key
      /\ req[p].toolCallList[1].arguments.task_id
           # req[q].toolCallList[1].arguments.task_id
      /\ OnlyRequests(p, q) )
    => \A o \in {p, q} :
         \A i \in 1..Len(planner[loc[p].key].tasks) :
           planner[loc[p].key].tasks[i].id = req[o].toolCallList[1].arguments.task_id
             => planner[loc[p].key].tasks[i].isComplete
                  = req[o].toolCallList[1].arguments.is_complete

\* the to-do items stored under a key, <<>> when there is no document
StoredItems(coll, key) == IF key \in DOMAIN coll THEN coll[key].items ELSE <<>>

\* C4: when requests run one after another, the write of every successful
\* createToDoList (the step after which it awaits its 200 answer) leaves the
\* stored list equal to the list stored before it followed by one
\* item {text, isComplete: false} per text of the request, in request order;
\* so after any sequence of creates the list is the concatenation of their
\* lists.
C4_SequentialCreatesAppend ==
  [][\A p \in Procs :
       ( /\ pc[p] = "read"
         /\ req[p].endpoint = "createToDoList"
         /\ pc'[p] = "write" )
       => LET texts == req[p].toolCallList[1].arguments.to_do_list.elems
          IN StoredItems(todo', loc[p].key)
               = StoredItems(todo, loc[p].key)
                   \o [i \in 1..Len(texts) |->
                         [text |-> texts[i], isComplete |-> "false"]]]_vars

\* C4 witness: a create answered 200 that appended to a list an earlier
\* create had stored
C4_Witness ==
  \E p \in Procs :
    /\ Answered200(p, "createToDoList")
    /\ loc[p].snap.exists
    /\ Len(loc[p].snap.data.items) >= 1
    /\ "id" \notin DOMAIN loc[p].snap.data.items[1]
    /\ Len(todo[loc[p].key].items) > Len(loc[p].snap.data.items)

\* an authenticated POST in the tool-call envelope
WellFormed(r, API_KEY) ==
  /\ r.method = "POST"
  /\ Authorized(r.apikey, API_KEY)
  /\ EnvelopeOk(r)

\* a meals payload that names some, not all, of the four meals, each by a
\* string within the length limit
PartialMeals(meals) ==
  /\ DOMAIN meals # {}
  /\ DOMAIN meals \subseteq MealTypes
  /\ DOMAIN meals # MealTypes
  /\ \A k \in DOMAIN meals :
       TypeOf(meals[k]) = "string" /\ StrLen(meals[k]) <= MAX_MEAL_LENGTH

\* C5: an updateMeals request that names only some of the four meals, sent
\* for a user whose planner of the day exists, is answered 200, and the
\* stored meals then hold the named values and still all four keys.
C5_PartialMealsSucceed ==
  \A p \in Procs :
    ( /\ pc[p] = "done"
      /\ req[p].endpoint = "updateMeals"
      /\ WellFormed(req[p], env.JOURNAL_API_KEY)
      /\ Truthy(Get(req[p].toolCallList[1].arguments, "user_id"))
      /\ Truthy(Get(req[p].toolCallList[1].arguments, "tool_id"))
      /\ "meals" \in DOMAIN req[p].toolCallList[1].arguments
      /\ PartialMeals(req[p].toolCallList[1].arguments.meals)
      /\ <<req[p].toolCallList[1].arguments.user_id, DateKey(clock)>>
           \in DOMAIN planner )
    => LET args == req[p].toolCallList[1].arguments
           stored == planner[<<args.user_id, DateKey(clock)>>].meals
       IN /\ resp[p].status = 200
          /\ DOMAIN stored = MealTypes
          /\ \A k \in DOMAIN args.meals : stored[k] = args.meals[k]

\* slot p holds a validated updateTaskCompletion request that read an
\* existing planner none of whose tasks has the requested id
UnmatchedCompletion(p) ==
  /\ pc[p] # "idle"
  /\ req[p].endpoint = "updateTaskCompletion"
  /\ "snap" \in DOMAIN loc[p]
  /\ loc[p].snap.exists
  /\ \A i \in 1..Len(loc[p].snap.data.tasks) :
       loc[p].snap.data.tasks[i].id # req[p].toolCallList[1].arguments.task_id

\* C6: a well-formed, authenticated updateTaskCompletion request whose
\* task_id matches no task of today's planner never reaches its write: the
\* step that follows its read answers 404 "Task not found" and leaves the
\* planner collection as it was.
C6_UnmatchedTaskIs404 ==
  [][\A p \in Procs :
       (UnmatchedCompletion(p) /\ pc[p] = "read" /\ pc'[p] # "read")
         => /\ pc'[p] = "done"
            /\ resp'[p].status = 404
            /\ resp'[p].body.error = "Task not found"
            /\ planner' = planner]_vars

\* C6 witness: an unmatched completion request answered against a planner
\* that has tasks
C6_Witness ==
  \E p \in Procs :
    /\ UnmatchedCompletion(p)
    /\ pc[p] = "done"
    /\ Len(loc[p].snap.data.tasks) > 0

\* slot p holds a validated updateToDoItems request that read an existing
\* list and supplies at least one id that no stored item has
UnmatchedUpdate(p) ==
  /\ pc[p] = "done"
  /\ req[p].endpoint = "updateToDoItems"
  /\ "snap" \in DOMAIN loc[p]
  /\ loc[p].snap.exists
  /\ \E i \in 1..Len(req[p].toolCallList[1].arguments.items.elems) :
       LET item == req[p].toolCallList[1].arguments.items.elems[i]
       IN /\ "id" \in DOMAIN item
          /\ \A j \in 1..Len(loc[p].snap.data.items) :
               Get(loc[p].snap.data.items[j], "id") # item.id

\* C7: an updateToDoItems request of which at least one supplied id matches
\* no stored item is answered with a not-found error and writes nothing:
\* the stored document is the one the request read.
C7_UnmatchedIdIsNotFound ==
  \A p \in Procs :
    UnmatchedUpdate(p)
      => /\ resp[p].status = 404
         /\ todo[loc[p].key] = loc[p].snap.data

\* the request of slot p names a user whose document of the day is not in
\* the collection
NoDocFor(r, coll) ==
  /\ WellFormed(r, env.JOURNAL_API_KEY)
  /\ Truthy(Get(r.toolCallList[1].arguments, "user_id"))
  /\ <<r.toolCallList[1].arguments.user_id, DateKey(clock)>> \notin DOMAIN coll

\* C8: every step of a get request, from its arrival to its answer, leaves
\* both collections as they were, so that it creates and changes no
\* document and its repeat reads the same; when there is no document for
\* the user and day, the answer is 200 with the empty default (no items and
\* zero counts, or no tasks, four empty meals and zero counts).
C8_GetsReadOnlyWithEmptyDefault ==
  [][\A p \in Procs :
       ( /\ pc'[p] # pc[p]
         /\ pc'[p] # "idle"
         /\ req'[p].endpoint \in {"getTodayToDoList", "getTodaysPlanner"} )
       => /\ pc'[p] \in {"read", "done"}
          /\ todo' = todo
          /\ planner' = planner
          /\ ( /\ pc'[p] = "done"
               /\ req'[p].endpoint = "getTodayToDoList"
               /\ NoDocFor(req'[p], todo)
               => /\ resp'[p].status = 200
                  /\ LET result == resp'[p].body.results[1].result
                     IN /\ result.items = <<>>
                        /\ result.total_items = 0
                        /\ result.completed_items = 0 )
          /\ ( /\ pc'[p] = "done"
               /\ req'[p].endpoint = "getTodaysPlanner"
               /\ NoDocFor(req'[p], planner)
               => /\ resp'[p].status = 200
                  /\ LET result == resp'[p].body.results[1].result
                     IN /\ result.tasks = <<>>
                        /\ "meals" \in DOMAIN result
                        /\ result.meals = [k \in MealTypes |-> ""]
                        /\ result.total_tasks = 0
                        /\ result.completed_tasks = 0 )]_vars

\* C8 witness: a planner get answered 200 for a user and day without a
\* document, which is still not in the collection
C8_Witness ==
  \E p \in Procs :
    /\ Answered200(p, "getTodaysPlanner")
    /\ ~loc[p].snap.exists
    /\ loc[p].key \notin DOMAIN planner

\* C9: every stored planner document has a meals value with the four keys
\* breakfast, lunch, snacks and dinner, each holding a string.
C9_StoredMealsComplete ==
  \A k \in DOMAIN planner :
    /\ "meals" \in DOMAIN planner[k]
    /\ MealTypes \subseteq DOMAIN planner[k].meals
    /\ \A m \in MealTypes : TypeOf(planner[k].meals[m]) = "string"

\* C9 witness: a planner that updateTasks and updateMeals have both written
C9_Witness ==
  \E k \in DOMAIN planner :
    /\ planner[k].tasks # <<>>
    /\ planner[k].meals # EmptyMeals

\* C10: every stored to-do item has an id, and no two items of one document
\* share an id.
C10_StoredItemsHaveUniqueIds ==
  \A k \in DOMAIN todo :
    /\ \A i \in 1..Len(todo[k].items) : "id" \in DOMAIN todo[k].items[i]
    /\ \A i, j \in 1..Len(todo[k].items) :
         i # j => todo[k].items[i].id # todo[k].items[j].id

\* an answer that denies the request as unauthorized: status 401, or, from
\* the callable saveJournalEntry, a returned {success: false, code: 401}
Unauthorized(out) ==
  \/ out.status = 401
  \/ /\ out.status = 200
     /\ "code" \in DOMAIN out.body
     /\ out.body.success = "false"
     /\ out.body.code = 401

\* slot p holds a POST to a tool-call endpoint, or a call of saveJournalEntry
PostOrCall(p) ==
  /\ pc[p] # "idle"
  /\ \/ req[p].endpoint = "saveJournalEntry"
     \/ req[p].endpoint \in ToolCallEndpoints /\ req[p].method = "POST"

\* C11: when the secret an endpoint is configured with is unset or empty,
\* every request to it is answered as unauthorized (401), whatever its
\* credential (the empty string and none included) and whatever its body,
\* and the handler does not reach the store.
C11_UnsetSecretDeniesAll ==
  \A p \in Procs :
    (PostOrCall(p) /\ ApiKeyOf(req[p].endpoint) = "")
      => /\ pc[p] = "done"
         /\ Unauthorized(resp[p])
         /\ "snap" \notin DOMAIN loc[p]

\* the endpoint lets a well-formed POST with this credential past its
\* credential check
Accepts(endpoint, apikey) ==
  Validate(endpoint, Post(endpoint, apikey, "call_1", GoodArgs(endpoint))).status
    # 401

\* C12: one configured secret gates all endpoints: each credential is either
\* accepted by every tool-call endpoint or rejected with 401 by every one.
C12_OneSecretGatesAll ==
  \A apikey \in Credentials :
    \/ \A endpoint \in ToolCallEndpoints : Accepts(endpoint, apikey)
    \/ \A endpoint \in ToolCallEndpoints : ~Accepts(endpoint, apikey)

\* C13: a request answered 400, 401 or 405 leaves every stored document as
\* it was and creates none: the step that answers it changes neither
\* collection, and the handler has read no document by then.
C13_RejectedLeavesStore ==
  [][\A p \in Procs :
       ( /\ pc[p] # "done"
         /\ pc'[p] = "done"
         /\ resp'[p].status \in {400, 401, 405} )
       => /\ todo' = todo
          /\ planner' = planner
          /\ "snap" \notin DOMAIN loc'[p]]_vars

\* C13 witness: a request in the tool-call envelope answered 400 for its
\* arguments while both collections hold a document
C13_Witness ==
  \E p \in Procs :
    /\ pc[p] = "done"
    /\ resp[p].status = 400
    /\ req[p].endpoint \in ToolCallEndpoints
    /\ EnvelopeOk(req[p])
    /\ DOMAIN todo # {}
    /\ DOMAIN planner # {}

\* C14: on every endpoint a POST without a credential, or with a wrong one,
\* is answered 401 whatever its body (no body, a malformed envelope and
\* missing fields included), and a 400 is only answered to a request whose
\* credential is right.
C14_CredentialBeforeBody ==
  \A p \in Procs :
    ( /\ pc[p] # "idle"
      /\ req[p].endpoint \in ToolCallEndpoints
      /\ req[p].method = "POST" )
    => /\ ~Authorized(req[p].apikey, ApiKeyOf(req[p].endpoint))
            => pc[p] = "done" /\ resp[p].status = 401
       /\ resp[p].status = 400
            => Authorized(req[p].apikey, ApiKeyOf(req[p].endpoint))

\* C15: every answer with a 4xx or 5xx status, the catch-all 500 included,
\* has a body with success false, an error message and a code equal to the
\* status.
C15_ErrorBodyShape ==
  \A p \in Procs :
    ( /\ pc[p] = "done"
      /\ req[p].endpoint \in ToolCallEndpoints
      /\ resp[p].status >= 400 )
    => /\ resp[p].body.success = "false"
       /\ "error" \in DOMAIN resp[p].body
       /\ "code" \in DOMAIN resp[p].body
       /\ resp[p].body.code = resp[p].status

\* C16: every 200 answer of a tool-call endpoint has the body
\* {results: [{toolCallId, result}]} with one entry, whose toolCallId is the
\* id of the first tool call of the request.
C16_ResultsWrapper ==
  \A p \in Procs :
    ( /\ pc[p] = "done"
      /\ req[p].endpoint \in ToolCallEndpoints
      /\ resp[p].status = 200 )
    => /\ DOMAIN resp[p].body = {"results"}
       /\ Len(resp[p].body.results) = 1
       /\ DOMAIN resp[p].body.results[1] = {"toolCallId", "result"}
       /\ resp[p].body.results[1].toolCallId = req[p].toolCallList[1].id

\* a string of the form h:mm AM|PM with an hour of 1..12 and a minute of
\* 0..59
ValidTwelveHour(s) ==
  LET match == TimeRegexMatch(s) IN
  /\ match.matched
  /\ ParseInt(match.hours) \in 1..12
  /\ ParseInt(match.minutes) \in 0..59

\* C17: parseTimeString yields null for every string that is not a valid
\* 12-hour time, "25:00 AM", "13:00 PM", "0:30 AM" and "8:75 AM" included.
C17_InvalidYieldsNull ==
  (parsed.returned /\ ~ValidTwelveHour(timeString)) => parsed.value = Null

\* the hour of the day that h AM or h PM names
HourOfDay(h, period) ==
  IF period = <<"A", "M">> THEN (IF h = 12 THEN 0 ELSE h)
  ELSE (IF h = 12 THEN 12 ELSE h + 12)

\* t is the instant of the hour H and the minute M of today when that time
\* of day is not before now, and of tomorrow when it is, seconds and
\* milliseconds zero: the first instant of that time of day from now on
NextOccurrence(t, H, M, now) ==
  /\ t % 1000 = 0
  /\ (t \div 1000) % 60 = 0
  /\ (t % MsPerDay) \div MsPerHour = H
  /\ ((t % MsPerDay) \div MsPerMinute) % 60 = M
  /\ t \div MsPerDay =
       IF H * MsPerHour + M * MsPerMinute >= now % MsPerDay
         THEN now \div MsPerDay
         ELSE now \div MsPerDay + 1

\* the instants of a call whose clock reads gave created and now that can
\* have t as the first instant of its time of day from them on: the
\* earliest of them is the first read or the instant after t - 24 h
CurrentTimes(created, now, t) ==
  {at \in {created, t - MsPerDay + 1} : created <= at /\ at <= now}

\* C18: for every valid 12-hour string and every current time,
\* parseTimeString returns an instant with seconds and milliseconds zero,
\* hour 0 for 12 AM, 12 for 12 PM, h for the other AM hours and h + 12 for
\* the other PM hours, the minute given, on today's date when that time of
\* day is not before now and on tomorrow's date otherwise, where now is an
\* instant of the call: one between its two clock reads.
C18_ValidYieldsNextOccurrence ==
  (parsed.returned /\ ValidTwelveHour(timeString)) =>
    LET match == TimeRegexMatch(timeString) IN
    /\ ~parsed.value.isNull
    /\ \E at \in CurrentTimes(parsed.created, parsed.now, parsed.value.time) :
         NextOccurrence(parsed.value.time,
                        HourOfDay(ParseInt(match.hours), match.period),
                        ParseInt(match.minutes), at)

\* "12:00 AM" asked in the last millisecond of day 1, with the second clock
\* read after midnight: midnight of day 2, tomorrow at the first read
C18_Witness ==
  /\ parsed.returned
  /\ ValidTwelveHour(timeString)
  /\ TimeRegexMatch(timeString).period = <<"A", "M">>
  /\ ParseInt(TimeRegexMatch(timeString).hours) = 12
  /\ ParseInt(TimeRegexMatch(timeString).minutes) = 0
  /\ parsed.created = Instant(1, 23, 59, 59, 999)
  /\ parsed.now = Instant(2, 0, 0, 0, 1)
  /\ parsed.value = DateOf(Instant(2, 0, 0, 0, 0))

\* the valid 12-hour string names exactly the time of day of the instant now
NamesExactly(s, now) ==
  /\ ValidTwelveHour(s)
  /\ LET match == TimeRegexMatch(s) IN
     HourOfDay(ParseInt(match.hours), match.period) * MsPerHour
       + ParseInt(match.minutes) * MsPerMinute = now % MsPerDay

\* C19 as stated: a time of day exactly equal to the current instant, the
\* one the function compares it with, is treated as already passed, and the
\* result is that time of tomorrow.
C19_ExactlyNowIsTomorrow ==
  (parsed.returned /\ NamesExactly(timeString, parsed.now)) =>
    (~parsed.value.isNull /\ parsed.value.time = parsed.now + MsPerDay)

\* C19 amended: a time of day exactly equal to the current instant, the one
\* the function compares it with, is treated as not yet passed, and the
\* result is the current instant itself, on today's date.
C19_ExactlyNowIsToday ==
  (parsed.returned /\ NamesExactly(timeString, parsed.now)) =>
    (~parsed.value.isNull /\ parsed.value.time = parsed.now)

\* "8:00 PM" asked at 13:00 and compared with 20:00:00.000
C19_Witness ==
  /\ parsed.returned
  /\ NamesExactly(timeString, parsed.now)
  /\ parsed.created = Instant(1, 13, 0, 0, 0)
  /\ parsed.now = Instant(1, 20, 0, 0, 0)
  /\ parsed.value = DateOf(parsed.now)

CallTimeFields == {"morningCallTime", "eveningCallTime"}

\* the name of the calls scheduled for the call-time field f
KindOf(f) == IF f = "morningCallTime" THEN "Morning Call" ELSE "Evening Call"

\* slot p holds an invocation of onUserUpdated that has begun
Invoked(p) ==
  /\ req[p].endpoint = "onUserUpdated"
  /\ pc[p] \in {"morning", "evening", "done"}

\* slot p holds an invocation of onUserUpdated that has returned
Returned(p) == req[p].endpoint = "onUserUpdated" /\ pc[p] = "done"

\* the update of the event e wrote the field f with the non-empty value it
\* already had
Resaved(e, f) ==
  /\ f \in DOMAIN e.before
  /\ f \in DOMAIN e.after
  /\ e.after[f] = e.before[f]
  /\ e.after[f] # <<>>

\* the update of the event e changed the field f to a new non-empty value
ChangedTo(e, f) ==
  /\ f \in DOMAIN e.after
  /\ e.after[f] # <<>>
  /\ (f \notin DOMAIN e.before \/ e.before[f] # e.after[f])

\* nothing stands in the way of scheduling a call for the field f of the
\* profile: phone number and name present, key set, time parseable
Schedulable(data, f) ==
  /\ Truthy(Get(data, "phoneNumber"))
  /\ Truthy(Get(data, "name"))
  /\ env.VAPI_API_KEY # ""
  /\ f \in DOMAIN data
  /\ ~parseTimeString(data[f], wallClock, wallClock).isNull

\* the number of requests of the kind of the field f among the payloads cs
RECURSIVE RequestsOf(_, _)
RequestsOf(cs, f) ==
  IF cs = <<>> THEN 0
  ELSE RequestsOf(Tail(cs), f) + (IF Head(cs).name = KindOf(f) THEN 1 ELSE 0)

\* C20 as stated: a profile update that writes morningCallTime (or
\* eveningCallTime) with the same non-empty value it already had schedules
\* another call of that kind: the trigger of every such update has
\* submitted one scheduling request of that kind when it returns.
C20_ResaveSchedulesAnother ==
  \A p \in Procs, f \in CallTimeFields :
    (/\ Returned(p)
     /\ Resaved(req[p], f)
     /\ Schedulable(req[p].after, f))
      => RequestsOf(loc[p].submitted, f) = 1

\* C20 amended: a profile update that writes morningCallTime (or
\* eveningCallTime) with the same value it already had schedules no call of
\* that kind: no step of the trigger of such an update adds a scheduling
\* request of that kind.
C20_ResaveSchedulesNothing ==
  [][\A p \in Procs, f \in CallTimeFields :
       (/\ req[p].endpoint = "onUserUpdated"
        /\ pc'[p] # pc[p]
        /\ Resaved(req[p], f)
        /\ Schedulable(req[p].after, f))
         => RequestsOf(calls', f) = RequestsOf(calls, f)]_vars

\* two updates have re-saved "8:00 AM" on a profile with a phone number and
\* a name, both triggers have returned, and no call was requested
C20_Witness ==
  \E p, q \in Procs :
    /\ p # q
    /\ \A i \in {p, q} :
         /\ Returned(i)
         /\ Resaved(req[i], "morningCallTime")
         /\ Schedulable(req[i].after, "morningCallTime")
         /\ req[i].after.morningCallTime = EightAM
         /\ loc[i].submitted = <<>>
    /\ calls = <<>>

\* C21: a scheduling request of the kind of a call-time field is submitted
\* only by the trigger of an update of an existing profile in which that
\* field differs between before and after and is non-empty after; an update
\* that changes only other fields or clears the call time, a creation and a
\* deletion submit none.
C21_RequestsOnlyOnChange ==
  [][\A f \in CallTimeFields :
       RequestsOf(calls', f) > RequestsOf(calls, f) =>
         \E p \in Procs :
           /\ req[p].endpoint = "onUserUpdated"
           /\ pc'[p] # pc[p]
           /\ ChangedTo(req[p], f)
           /\ RequestsOf(loc'[p].submitted, f) = 1]_vars

\* an update has moved the morning call from "8:00 AM" to "9:30 AM", its
\* trigger has returned, and one morning call was requested
C21_Witness ==
  \E p \in Procs :
    /\ Returned(p)
    /\ "morningCallTime" \in DOMAIN req[p].before
    /\ req[p].before.morningCallTime = EightAM
    /\ req[p].after.morningCallTime = HalfPastNineAM
    /\ Len(calls) = 1
    /\ calls[1].name = "Morning Call"
    /\ calls[1].schedulePlan.earliestAt = Instant(1, 9, 30, 0, 0)

\* C22: whatever scheduleVapiCall does, onUserUpdated completes normally
\* and returns null, also when a submission to the call service throws; and
\* for a call time that fails to parse, no request is submitted.
C22_TriggerReturnsNull ==
  \A p \in Procs :
    /\ Returned(p) => resp[p].returned = "null"
    /\ Invoked(p) =>
         \A f \in CallTimeFields :
           (/\ f \in DOMAIN req[p].after
            /\ parseTimeString(req[p].after[f], wallClock, wallClock).isNull)
             => RequestsOf(loc[p].submitted, f) = 0

\* a trigger whose morning submission failed, and the trigger of an update
\* of the morning call time to "noon" on a profile with phone number and
\* name: both returned null, and "noon" was not submitted
C22_Witness ==
  \E p, q \in Procs :
    /\ Returned(p)
    /\ loc[p].morning = "failed"
    /\ resp[p].returned = "null"
    /\ Returned(q)
    /\ resp[q].returned = "null"
    /\ env.VAPI_API_KEY # ""
    /\ Truthy(Get(req[q].after, "phoneNumber"))
    /\ Truthy(Get(req[q].after, "name"))
    /\ ChangedTo(req[q], "morningCallTime")
    /\ req[q].after.morningCallTime = Noon
    /\ loc[q].submitted = <<>>
    /\ Len(calls) = 1

\* C23: when one profile update changes both morningCallTime and
\* eveningCallTime to new non-empty, parseable values, phone number and
\* name present, its trigger has submitted an evening scheduling request
\* when it returns, also when the morning submission fails.
C23_EveningSubmittedAnyway ==
  \A p \in Procs :
    (/\ Returned(p)
     /\ ChangedTo(req[p], "morningCallTime")
     /\ ChangedTo(req[p], "eveningCallTime")
     /\ Schedulable(req[p].after, "morningCallTime")
     /\ Schedulable(req[p].after, "eveningCallTime"))
      => RequestsOf(loc[p].submitted, "eveningCallTime") = 1

\* slot p holds an answered, authenticated updateTaskCompletion request
\* whose arguments are exactly the fields given, with a user_id, the id of
\* a task of today's planner and a boolean is_complete
CompletionRequest(p, fields) ==
  /\ pc[p] = "done"
  /\ req[p].endpoint = "updateTaskCompletion"
  /\ WellFormed(req[p], env.JOURNAL_API_KEY)
  /\ LET args == req[p].toolCallList[1].arguments IN
     /\ DOMAIN args = fields
     /\ \A f \in fields \ {"is_complete"} : Truthy(args[f])
     /\ args["is_complete"] \in {"true", "false"}
     /\ LET doc == DocGet(planner, <<args["user_id"], DateKey(clock)>>) IN
        /\ doc.exists
        /\ \E i \in 1..Len(doc.data.tasks) :
             doc.data.tasks[i].id = args["task_id"]

\* slot p was answered 200 with the stored task list of today's planner and
\* its counts
AnsweredWithTasks(p) ==
  /\ resp[p].status = 200
  /\ LET result == resp[p].body.results[1].result
         tasks == planner[<<req[p].toolCallList[1].arguments["user_id"],
                            DateKey(clock)>>].tasks
     IN /\ {"tasks", "total_tasks", "completed_tasks"} \subseteq DOMAIN result
        /\ result.tasks = tasks
        /\ result.total_tasks = Len(tasks)
        /\ result.completed_tasks =
             Cardinality({i \in 1..Len(tasks) : tasks[i].isComplete = "true"})

\* C24: an authenticated updateTaskCompletion request whose
\* arguments are exactly user_id, task_id (a task of today's planner) and a
\* boolean is_complete succeeds with 200 and returns the full task list with
\* counts.
C24_ThreeArgumentsSucceed ==
  \A p \in Procs :
    CompletionRequest(p, {"user_id", "task_id", "is_complete"})
      => AnsweredWithTasks(p)

\* the step pc -> pc' is the write of the request of slot p to the endpoint
\* given: the store applies it, and the request awaits its 200 answer
SuccessfulWrite(p, endpoint) ==
  /\ pc[p] = "read"
  /\ pc'[p] = "write"
  /\ req[p].endpoint = endpoint

\* C25: a successful updateTaskCompletion(task_id, v) changes in the stored
\* planner only the isComplete field of the task with that id, lastModified
\* and modifiedBy: the number and order of the tasks, every task's id and
\* text, the isComplete of every other task, the meals and createdAt are
\* what they were.
C25_CompletionChangesOneField ==
  [][\A p \in Procs :
       SuccessfulWrite(p, "updateTaskCompletion") =>
         LET key == loc[p].key
             task_id == req[p].toolCallList[1].arguments.task_id
         IN /\ DOMAIN planner' = DOMAIN planner
            /\ \A k \in DOMAIN planner \ {key} : planner'[k] = planner[k]
            /\ planner'[key].meals = planner[key].meals
            /\ planner'[key].createdAt = planner[key].createdAt
            /\ Len(planner'[key].tasks) = Len(planner[key].tasks)
            /\ \A i \in 1..Len(planner[key].tasks) :
                 /\ planner'[key].tasks[i].id = planner[key].tasks[i].id
                 /\ planner'[key].tasks[i].text = planner[key].tasks[i].text
                 /\ planner[key].tasks[i].id # task_id =>
                      planner'[key].tasks[i].isComplete
                        = planner[key].tasks[i].isComplete]_vars

\* C26: a successful updateTasks request against an existing planner
\* document replaces the stored task list by exactly the normalized list of
\* the request and leaves meals and createdAt unchanged; against a missing
\* document it creates one with that task list, four empty-string meals and
\* createdAt equal to lastModified.
C26_UpdateTasksReplacesList ==
  [][\A p \in Procs :
       SuccessfulWrite(p, "updateTasks") =>
         LET key == loc[p].key
             tasks == NormalizedTasks(req[p].toolCallList[1].arguments.tasks.elems)
         IN /\ DOMAIN planner' = DOMAIN planner \cup {key}
            /\ \A k \in DOMAIN planner \ {key} : planner'[k] = planner[k]
            /\ planner'[key].tasks = tasks
            /\ IF key \in DOMAIN planner
                 THEN /\ planner'[key].meals = planner[key].meals
                      /\ planner'[key].createdAt = planner[key].createdAt
                 ELSE /\ planner'[key].meals = EmptyMeals
                      /\ planner'[key].createdAt = planner'[key].lastModified]_vars

\* a task with an empty or missing id or text, a text longer than 500
\* characters, or neither isComplete nor is_complete as a boolean
OffendingTask(task) ==
  \/ Get(task, "id") \in {Undefined, ""}
  \/ Get(task, "text") \in {Undefined, ""}
  \/ StrLen(task.text) > 500
  \/ /\ Get(task, "isComplete") \notin {"true", "false"}
     /\ Get(task, "is_complete") \notin {"true", "false"}

\* r is an authenticated updateTasks request with a user_id and a list of
\* more than 50 tasks or with an offending task
OffendingBatch(r) ==
  /\ r.endpoint = "updateTasks"
  /\ WellFormed(r, env.VAPI_API_KEY)
  /\ Truthy(Get(r.toolCallList[1].arguments, "user_id"))
  /\ IsArray(r.toolCallList[1].arguments, "tasks")
  /\ LET tasks == r.toolCallList[1].arguments.tasks.elems IN
     \/ Len(tasks) > 50
     \/ \E i \in 1..Len(tasks) : OffendingTask(tasks[i])

\* C27: an updateTasks request whose list has more than 50 tasks, or a task
\* with an empty or missing id or text, a text longer than 500 characters,
\* or no boolean isComplete or is_complete, is answered 400 by the step
\* that receives it and writes nothing.
C27_OffendingBatchRejected ==
  [][\A p \in Procs :
       (pc[p] = "idle" /\ pc'[p] # "idle" /\ OffendingBatch(req'[p])) =>
         /\ pc'[p] = "done"
         /\ resp'[p].status = 400
         /\ planner' = planner
         /\ todo' = todo]_vars

\* a batch whose first task is valid and whose second is not, answered 400
\* while a planner is stored
C27_Witness ==
  \E p \in Procs :
    /\ pc[p] = "done"
    /\ OffendingBatch(req[p])
    /\ resp[p].status = 400
    /\ DOMAIN planner # {}
    /\ LET tasks == req[p].toolCallList[1].arguments.tasks.elems IN
       /\ Len(tasks) = 2
       /\ ~OffendingTask(tasks[1])
       /\ OffendingTask(tasks[2])
       /\ \A k \in DOMAIN planner :
            \A i \in 1..Len(planner[k].tasks) :
              planner[k].tasks[i].text # tasks[1].text

\* C28: every item of every stored to-do document and every task of every
\* stored planner document has an isComplete field that is a boolean, and
\* none carries an is_complete field.
C28_StoredStatusIsBoolean ==
  /\ \A k \in DOMAIN todo :
       \A i \in 1..Len(ItemsOf(todo[k])) :
         /\ Get(todo[k].items[i], "isComplete") \in {"true", "false"}
         /\ "is_complete" \notin DOMAIN todo[k].items[i]
  /\ \A k \in DOMAIN planner :
       \A i \in 1..Len(planner[k].tasks) :
         /\ Get(planner[k].tasks[i], "isComplete") \in {"true", "false"}
         /\ "is_complete" \notin DOMAIN planner[k].tasks[i]

\* C29: once an updateTaskCompletion(task_id, v) has been answered 200,
\* every task of the stored planner whose id is task_id has isComplete = v,
\* and the completed_tasks of the answer is the number of stored tasks with
\* isComplete true, also when the planner holds several tasks with that id.
C29_EveryMatchingTaskIsSet ==
  \A p \in Procs :
    (/\ pc[p] = "done"
     /\ req[p].endpoint = "updateTaskCompletion"
     /\ resp[p].status = 200) =>
      LET args == req[p].toolCallList[1].arguments
          tasks == planner[loc[p].key].tasks
      IN /\ \A i \in 1..Len(tasks) :
              tasks[i].id = args.task_id => tasks[i].isComplete = args.is_complete
         /\ resp[p].body.results[1].result.completed_tasks =
              Cardinality({i \in 1..Len(tasks) : tasks[i].isComplete = "true"})

\* the user whose documents the request r addresses
RequestUser(r) ==
  LET args == r.toolCallList[1].arguments IN
  IF "user_id" \in DOMAIN args /\ args.user_id # "" THEN args.user_id
  ELSE "default_user"

\* the step coll -> coll' creates or modifies the document of key k
Written(coll, collNext, k) == k \notin DOMAIN coll \/ collNext[k] # coll[k]

\* C30: a document that exists keeps existing; a request that reaches the
\* store addresses the document of its user_id and of the UTC date at the
\* time of the request, and every write of a request goes to that document
\* and to no other, so that a request that starts after the date has
\* advanced past a document's date never modifies it.
C30_WritesGoToTodaysDocument ==
  [][/\ DOMAIN todo \subseteq DOMAIN todo'
     /\ DOMAIN planner \subseteq DOMAIN planner'
     /\ \A p \in Procs :
          (pc[p] = "idle" /\ pc'[p] = "read") =>
            loc'[p].key = <<RequestUser(req'[p]), clock \div TicksPerDay>>
     /\ \A k \in DOMAIN todo' :
          Written(todo, todo', k) =>
            \E p \in Procs : pc[p] = "read" /\ pc'[p] = "write" /\ k = loc[p].key
     /\ \A k \in DOMAIN planner' :
          Written(planner, planner', k) =>
            \E p \in Procs : pc[p] = "read" /\ pc'[p] = "write" /\ k = loc[p].key
    ]_vars

\* a request that started on day 0 has written the planner of day 0 after
\* the day had changed, and the planner of day 1 does not exist
C30_Witness ==
  \E p \in Procs :
    /\ pc[p] = "done"
    /\ resp[p].status = 200
    /\ req[p].endpoint = "updateTasks"
    /\ loc[p].key = <<"u1", 0>>
    /\ clock \div TicksPerDay = 1
    /\ planner[<<"u1", 0>>].lastModified \div TicksPerDay = 1
    /\ <<"u1", 1>> \notin DOMAIN planner

=============================================================================
